---- MODULE Spec2Model ----
(***************************************************************************)
(* Lake Powell inflow tool: the data-to-forecast pipeline of the three     *)
(* component drafts found in the repository.                               *)
(*   variant 1 : src/src/App.tsx lines 1-165                               *)
(*   variant 2 : src/src/App.tsx lines 167-852                             *)
(*   variant 3 : src/unnamed/part_000                                      *)
(* JavaScript numbers are IEEE 754 doubles: every operation rounds its      *)
(* exact result to the nearest double, ties to the even mantissa; the two  *)
(* zeros, the infinities and NaN are values.  Equality of two numbers of   *)
(* the model is Object.is; REq is ===.                                     *)
(***************************************************************************)
EXTENDS Integers, Sequences, FiniteSets, TLC

VARIABLES variant, file, pc, effectPending,
          historicalData, loading, error,
          sweApr1Pct, fallSMPct, springPrecipPct,
          forecastedFlowPct, forecastedFlowMM, analogYears, regressionBeta

vars == <<variant, file, pc, effectPending, historicalData, loading, error,
          sweApr1Pct, fallSMPct, springPrecipPct,
          forecastedFlowPct, forecastedFlowMM, analogYears, regressionBeta>>

(***************************************************************************)
(* JavaScript number arithmetic: IEEE 754 binary64, round to nearest even  *)
(***************************************************************************)
P2(k) == 2 ^ k

\* a natural number is a little-endian sequence of limbs in 0 .. 2^14 - 1
Limb == 16384

LimbBits == 14

\* the precision of a double, and the exponents of its least subnormal and greatest number
MantBits == 53

MinExp == -1074

MaxExp == 971

At(a, i) == IF i >= 1 /\ i <= Len(a) THEN a[i] ELSE 0

RECURSIVE Trim(_)
Trim(a) == IF a # <<>> /\ a[Len(a)] = 0 THEN Trim(SubSeq(a, 1, Len(a) - 1)) ELSE a

\* the number of bits of a limb t > 0
BitsOf(t) ==
    IF t < 128
    THEN (IF t < 8 THEN (IF t < 2 THEN 1 ELSE IF t < 4 THEN 2 ELSE 3)
          ELSE IF t < 32 THEN (IF t < 16 THEN 4 ELSE 5)
          ELSE IF t < 64 THEN 6 ELSE 7)
    ELSE (IF t < 1024 THEN (IF t < 256 THEN 8 ELSE IF t < 512 THEN 9 ELSE 10)
          ELSE IF t < 4096 THEN (IF t < 2048 THEN 11 ELSE 12)
          ELSE IF t < 8192 THEN 13 ELSE 14)

\* the number of bits of a trimmed natural number
BitLen(a) == IF a = <<>> THEN 0 ELSE LimbBits * (Len(a) - 1) + BitsOf(a[Len(a)])

\* bit k of a, counted from 0
BitAt(a, k) == (At(a, k \div LimbBits + 1) \div P2(k % LimbBits)) % 2

\* some bit of a under bit k is set
LowNonZero(a, k) ==
    \/ \E i \in 1..(k \div LimbBits) : At(a, i) # 0
    \/ At(a, k \div LimbBits + 1) % P2(k % LimbBits) # 0

\* floor(a / 2^s)
ShiftRight(a, s) ==
    LET ls == s \div LimbBits
        bs == s % LimbBits
    IN  IF Len(a) <= ls THEN <<>>
        ELSE [i \in 1..(Len(a) - ls) |->
                 (a[i + ls] \div P2(bs)) + (At(a, i + ls + 1) % P2(bs)) * P2(LimbBits - bs)]

\* a * 2^s
ShiftLeft(a, s) ==
    LET ls == s \div LimbBits
        bs == s % LimbBits
    IN  [i \in 1..(Len(a) + ls + 1) |->
            IF i <= ls THEN 0
            ELSE ((At(a, i - ls) * P2(bs)) % Limb) + (At(a, i - ls - 1) \div P2(LimbBits - bs))]

\* limbs are worked on in runs of this many, which keeps the recursions shallow
RunLen == 8

RunEnd(i, n) == IF i + RunLen - 1 < n THEN i + RunLen - 1 ELSE n

\* a limb put under the limbs of a run
Under(x, run) == <<<<x>> \o run[1], run[2]>>

\* the limbs of the column sums i .. j with the carry c taken in, and the carry out
RECURSIVE CarryRun(_, _, _, _)
CarryRun(cols, i, j, c) ==
    IF i > j THEN <<<<>>, c>>
    ELSE Under((cols[i] + c) % Limb, CarryRun(cols, i + 1, j, (cols[i] + c) \div Limb))

\* the limbs of a sequence of column sums, carries taken along
RECURSIVE Carry(_, _, _)
CarryOn(cols, i, run) == run[1] \o Carry(cols, i + RunLen, run[2])

Carry(cols, i, c) ==
    IF i > Len(cols) THEN (IF c = 0 THEN <<>> ELSE <<c>>)
    ELSE CarryOn(cols, i, CarryRun(cols, i, RunEnd(i, Len(cols)), c))

\* a + b
BigAdd(a, b) ==
    LET n == IF Len(a) > Len(b) THEN Len(a) ELSE Len(b)
    IN  Carry([i \in 1..n |-> At(a, i) + At(b, i)], 1, 0)

\* the limbs i .. j of a - b with the borrow c taken off, and the borrow out
RECURSIVE BorrowRun(_, _, _, _, _)
BorrowLimb(a, b, i, j, t) ==
    IF t < 0 THEN Under(t + Limb, BorrowRun(a, b, i + 1, j, 1))
    ELSE Under(t, BorrowRun(a, b, i + 1, j, 0))

BorrowRun(a, b, i, j, c) ==
    IF i > j THEN <<<<>>, c>> ELSE BorrowLimb(a, b, i, j, a[i] - At(b, i) - c)

\* a - b for a >= b
RECURSIVE Borrow(_, _, _, _)
BorrowOn(a, b, i, run) == run[1] \o Borrow(a, b, i + RunLen, run[2])

Borrow(a, b, i, c) ==
    IF i > Len(a) THEN <<>> ELSE BorrowOn(a, b, i, BorrowRun(a, b, i, RunEnd(i, Len(a)), c))

BigSub(a, b) == Borrow(a, b, 1, 0)

\* -1, 0, 1 as a < b, a = b, a > b (limbs compared from the top, equal runs skipped)
RECURSIVE CmpFrom(_, _, _)
CmpFrom(a, b, i) ==
    IF i = 0 THEN 0
    ELSE IF i >= RunLen /\ \A j \in (i - RunLen + 1)..i : At(a, j) = At(b, j)
         THEN CmpFrom(a, b, i - RunLen)
    ELSE IF At(a, i) < At(b, i) THEN -1
    ELSE IF At(a, i) > At(b, i) THEN 1
    ELSE CmpFrom(a, b, i - 1)

BigCmp(a, b) == CmpFrom(a, b, IF Len(a) > Len(b) THEN Len(a) ELSE Len(b))

\* a * b for a of at most four limbs
BigMul(a, b) ==
    Carry([k \in 1..(Len(b) + 3) |->
              At(a, 1) * At(b, k) + At(a, 2) * At(b, k - 1)
              + At(a, 3) * At(b, k - 2) + At(a, 4) * At(b, k - 3)], 1, 0)

\* a * q for one limb q
BigMulSmall(a, q) == Carry([k \in 1..Len(a) |-> a[k] * q], 1, 0)

\* the greatest q with q * v <= w, from the estimate qh >= q
RECURSIVE Digit(_, _, _)
Digit(w, v, qh) == IF BigCmp(BigMulSmall(v, qh), w) > 0 THEN Digit(w, v, qh - 1) ELSE qh

\* the quotient of the later steps with the digit q of this step put on top
WithTopDigit(rest, q) == <<Append(rest[1], q), rest[2]>>

\* long division of the limbs n[k], n[k-1], .. n[1] brought down onto the remainder r < v,
\* for a divisor v of four limbs whose top limb is at least 2^13: <<quotient, remainder>>
RECURSIVE DivLimbs(_, _, _, _)
\* the step whose digit is q: the remainder w - q * v goes on
DivLimbsAfter(n, k, w, v, q) ==
    WithTopDigit(DivLimbs(n, k - 1,
                          SubSeq(BigSub(w, BigMulSmall(v, q)) \o <<0, 0, 0, 0>>, 1, 4), v), q)

\* the step on w, the remainder with the next limb brought down
DivLimbsOn(n, k, w, v, est) ==
    DivLimbsAfter(n, k, w, v, Digit(w, v, IF est >= Limb THEN Limb - 1 ELSE est))

DivLimbs(n, k, r, v) ==
    IF k = 0 THEN <<<<>>, r>>
    ELSE DivLimbsOn(n, k, <<n[k]>> \o r, v, ((r[4] * Limb) + r[3]) \div v[4])

(***************************************************************************)
(* A number is <<sign, exponent, m4, m3, m2, m1>>: the value                *)
(* sign * (m4 m3 m2 m1 as a natural number of four limbs) * 2^exponent,    *)
(* with 2^52 <= mantissa < 2^53 unless the exponent is -1074 (subnormal).  *)
(* Zero keeps its sign; NaN has sign 0.                                    *)
(***************************************************************************)
NaN == <<0, 0, 0, 0, 0, 0>>

InfExp == 9999

ZeroExp == -9999

PInf == <<1, InfExp, 0, 0, 0, 0>>

NInf == <<-1, InfExp, 0, 0, 0, 0>>

Zero(s) == <<s, ZeroExp, 0, 0, 0, 0>>

Inf(s) == <<s, InfExp, 0, 0, 0, 0>>

IsNaN(x) == x[1] = 0

IsInf(x) == x[2] = InfExp

IsZero(x) == x[2] = ZeroExp

IsFinite(x) == x[1] # 0 /\ x[2] # InfExp

\* the mantissa as a natural number
Mant(x) == <<x[6], x[5], x[4], x[3]>>

Pack(s, e, m) == <<s, e, At(m, 4), At(m, 3), At(m, 2), At(m, 1)>>

\* the mantissa m (not yet cut to its top bit) at exponent e: a carry out of the rounding
\* leaves 54 bits, which are halved
Carried(s, e, m) ==
    IF m = <<>> THEN Zero(s)
    ELSE IF BitLen(m) > MantBits
         THEN (IF e + 1 > MaxExp THEN Inf(s) ELSE Pack(s, e + 1, ShiftRight(m, 1)))
         ELSE (IF e > MaxExp THEN Inf(s) ELSE Pack(s, e, m))

\* q with one added when the part cut off is over a half, or is a half and q is odd
RoundUp(s, e, q, half, more) ==
    Carried(s, e, Trim(IF half /\ (more \/ At(q, 1) % 2 = 1) THEN BigAdd(q, <<1>>) ELSE q))

\* a (trimmed, not zero) with its sh lowest bits cut off and rounded
RoundBy(s, a, e, sticky, sh) ==
    IF sh <= 0 THEN Pack(s, e + sh, ShiftLeft(a, -sh))
    ELSE RoundUp(s, e + sh, ShiftRight(a, sh), BitAt(a, sh - 1) = 1,
                 sticky \/ LowNonZero(a, sh - 1))

\* the number of low bits to cut from a mantissa of len bits at exponent e: down to 53
\* bits, and further for a subnormal result
ShiftFor(len, e) == IF len - MantBits > MinExp - e THEN len - MantBits ELSE MinExp - e

RoundTrimmed(s, a, e, sticky) ==
    IF a = <<>> THEN Zero(s) ELSE RoundBy(s, a, e, sticky, ShiftFor(BitLen(a), e))

\* the double nearest to s * (n + f) * 2^e, where n is a natural number and 0 <= f < 1 is
\* zero unless sticky; ties go to the even mantissa
RoundBig(s, n, e, sticky) == RoundTrimmed(s, Trim(n), e, sticky)

AbsInt(i) == IF i < 0 THEN -i ELSE i

\* an integer literal
FromInt(i) ==
    IF i = 0 THEN Zero(1)
    ELSE RoundBig(IF i < 0 THEN -1 ELSE 1,
                  <<AbsInt(i) % Limb, (AbsInt(i) \div Limb) % Limb, AbsInt(i) \div (Limb * Limb)>>,
                  0, FALSE)

\* an integer of one limb: the mantissa is the integer shifted up to 53 bits
FromLimb(s, i) ==
    LET b == BitsOf(i)
    IN  IF b <= 11 THEN <<s, b - 53, i * (2 ^ (11 - b)), 0, 0, 0>>
        ELSE <<s, b - 53, i \div (2 ^ (b - 11)), (i % (2 ^ (b - 11))) * (2 ^ (25 - b)), 0, 0>>

R(i) ==
    IF i = 0 THEN Zero(1)
    ELSE IF i > 0 /\ i < 16384 THEN FromLimb(1, i)
    ELSE IF i < 0 /\ i > -16384 THEN FromLimb(-1, -i)
    ELSE FromInt(i)

RNeg(x) == <<-x[1], x[2], x[3], x[4], x[5], x[6]>>

\* Math.abs(x)
MathAbs(x) == IF IsNaN(x) THEN x ELSE <<1, x[2], x[3], x[4], x[5], x[6]>>

\* |x| < |y| for numbers that are not NaN
MagLt(x, y) ==
    \/ x[2] < y[2]
    \/ x[2] = y[2] /\ BigCmp(Mant(x), Mant(y)) < 0

\* the sign of the value: 0 for both zeros
Sgn(x) == IF IsZero(x) THEN 0 ELSE x[1]

\* x < y (false when either is NaN)
RLt(x, y) ==
    IF IsNaN(x) \/ IsNaN(y) THEN FALSE
    ELSE IF Sgn(x) # Sgn(y) THEN Sgn(x) < Sgn(y)
    ELSE IF Sgn(x) = 0 THEN FALSE
    ELSE IF Sgn(x) > 0 THEN MagLt(x, y)
    ELSE MagLt(y, x)

\* x == y of JavaScript: the two zeros are equal, NaN equals nothing
REq(x, y) == ~IsNaN(x) /\ ~IsNaN(y) /\ (x = y \/ (IsZero(x) /\ IsZero(y)))

\* x <= y (false when either is NaN)
RLe(x, y) == REq(x, y) \/ RLt(x, y)

\* x > y and x >= y
RGt(x, y) == RLt(y, x)

RGe(x, y) == RLe(y, x)

\* x + y for numbers of opposite signs, from the aligned mantissas a of x and b of y
\* and their comparison c
SubAligned(x, y, a, b, c) ==
    IF c = 0 THEN Zero(1)
    ELSE RoundBig(IF c > 0 THEN x[1] ELSE y[1],
                  IF c > 0 THEN BigSub(a, b) ELSE BigSub(b, a), y[2], FALSE)

\* x + y from the mantissas a of x and b of y at the exponent of y
AddAligned(x, y, a, b) ==
    IF x[1] = y[1] THEN RoundBig(x[1], BigAdd(a, b), y[2], FALSE)
    ELSE SubAligned(x, y, a, b, BigCmp(a, b))

\* x + y for finite numbers that are not zero, |x| at least |y| in exponent
AddFinite(x, y) ==
    IF x[2] - y[2] > MantBits + 3 THEN x
    ELSE AddAligned(x, y, ShiftLeft(Mant(x), x[2] - y[2]), Mant(y))

\* x + y for any two numbers, by exact integer arithmetic on the mantissas
AddAny(x, y) ==
    IF IsNaN(x) \/ IsNaN(y) THEN NaN
    ELSE IF IsInf(x) /\ IsInf(y) THEN (IF x = y THEN x ELSE NaN)
    ELSE IF IsInf(x) THEN x
    ELSE IF IsInf(y) THEN y
    ELSE IF IsZero(x) /\ IsZero(y) THEN (IF x = y THEN x ELSE Zero(1))
    ELSE IF IsZero(x) THEN y
    ELSE IF IsZero(y) THEN x
    ELSE AddFinite(IF x[2] >= y[2] THEN x ELSE y, IF x[2] >= y[2] THEN y ELSE x)

\* x * y for any two numbers
MulAny(x, y) ==
    IF IsNaN(x) \/ IsNaN(y) THEN NaN
    ELSE IF IsInf(x) \/ IsInf(y)
         THEN (IF IsZero(x) \/ IsZero(y) THEN NaN ELSE Inf(x[1] * y[1]))
    ELSE IF IsZero(x) \/ IsZero(y) THEN Zero(x[1] * y[1])
    ELSE RoundBig(x[1] * y[1], BigMul(Mant(x), Mant(y)), x[2] + y[2], FALSE)

\* the mantissa m of x shifted up to 56 bits, and the exponent that goes with it
WideBy(x, m, up) == <<SubSeq(ShiftLeft(m, up), 1, 4), x[2] - up>>

WideOf(x, m) == WideBy(x, m, MantBits + 3 - BitLen(m))

\* the mantissa of a finite non-zero number shifted to 56 bits, and the exponent that
\* goes with it
Wide(x) == WideOf(x, Trim(Mant(x)))

\* the double nearest to s * (qr[1] and a fraction) * 2^e for the quotient and the
\* remainder qr
DivRoundBig(s, e, qr) == RoundBig(s, qr[1], e, Trim(qr[2]) # <<>>)

\* the quotient of the wide mantissas u by v
DivWide(s, u, v) ==
    DivRoundBig(s, u[2] - v[2] - 4 * LimbBits,
                DivLimbs(<<0, 0, 0, 0, u[1][1]>>, 5, <<u[1][2], u[1][3], u[1][4], 0>>, v[1]))

\* x / y for any two numbers
DivAny(x, y) ==
    IF IsNaN(x) \/ IsNaN(y) THEN NaN
    ELSE IF IsInf(y) THEN (IF IsInf(x) THEN NaN ELSE Zero(x[1] * y[1]))
    ELSE IF IsZero(y) THEN (IF IsZero(x) THEN NaN ELSE Inf(x[1] * y[1]))
    ELSE IF IsInf(x) THEN Inf(x[1] * y[1])
    ELSE IF IsZero(x) THEN Zero(x[1] * y[1])
    ELSE DivWide(x[1] * y[1], Wide(x), Wide(y))

(***************************************************************************)
(* The same operations for two normal numbers whose exponents are far from *)
(* the ends of the range (every number but zero that the component meets): *)
(* the mantissas are taken limb by limb, with guard and sticky bits.       *)
(***************************************************************************)
\* a normal number: the mantissa has its top bit, 2^52, set
Normal(x) == x[3] >= 1024

\* exponents between which no result of one operation is subnormal or overflows
MidRange(x) == x[2] > -400 /\ x[2] < 400

\* the mantissa r4 r3 r2 r1, one added when up is set: a carry out of 2^53 - 1 gives 2^52
\* at the next exponent
Finish(s, e, r1, r2, r3, r4, up) ==
    IF ~up THEN <<s, e, r4, r3, r2, r1>>
    ELSE IF r1 < 16383 THEN <<s, e, r4, r3, r2, r1 + 1>>
    ELSE IF r2 < 16383 THEN <<s, e, r4, r3, r2 + 1, 0>>
    ELSE IF r3 < 16383 THEN <<s, e, r4, r3 + 1, 0, 0>>
    ELSE IF r4 < 2047 THEN <<s, e, r4 + 1, 0, 0, 0>>
    ELSE <<s, e + 1, 1024, 0, 0, 0>>

\* the limbs <<a1, a2, a3, a4>> of eight times the mantissa of x, least significant first
Times8(x) ==
    <<(x[6] * 8) % 16384,
      ((x[5] * 8) % 16384) + (x[6] \div 2048),
      ((x[4] * 8) % 16384) + (x[5] \div 2048),
      (x[3] * 8) + (x[4] \div 2048)>>

\* limb i of a number of four limbs, 0 outside
L4(a, i) == IF i >= 1 /\ i <= 4 THEN a[i] ELSE 0

\* a number of four limbs shifted right by d bits; the lowest bit is set when a set bit
\* was shifted out (the sticky bit)
ShiftRightSticky(a, d) ==
    IF d >= 56 THEN <<1, 0, 0, 0>>
    ELSE LET ls == d \div 14
             w == 2 ^ (d % 14)
             v == 2 ^ (14 - (d % 14))
             lost == \/ L4(a, ls + 1) % w # 0
                     \/ \E j \in 1..ls : a[j] # 0
             low == (L4(a, 1 + ls) \div w) + ((L4(a, 2 + ls) % w) * v)
         IN  <<IF lost /\ low % 2 = 0 THEN low + 1 ELSE low,
               (L4(a, 2 + ls) \div w) + ((L4(a, 3 + ls) % w) * v),
               (L4(a, 3 + ls) \div w) + ((L4(a, 4 + ls) % w) * v),
               L4(a, 4 + ls) \div w>>

\* a number of four limbs shifted left by n bits, the result under 2^56
ShiftLeft4(a, n) ==
    LET ls == n \div 14
        w == 2 ^ (n % 14)
        v == 2 ^ (14 - (n % 14))
    IN  <<((L4(a, 1 - ls) * w) % 16384) + (L4(a, 0 - ls) \div v),
          ((L4(a, 2 - ls) * w) % 16384) + (L4(a, 1 - ls) \div v),
          ((L4(a, 3 - ls) * w) % 16384) + (L4(a, 2 - ls) \div v),
          ((L4(a, 4 - ls) * w) % 16384) + (L4(a, 3 - ls) \div v)>>

\* the number of bits of a number of four limbs that is not zero
BitLen4(a) ==
    IF a[4] # 0 THEN 42 + BitsOf(a[4])
    ELSE IF a[3] # 0 THEN 28 + BitsOf(a[3])
    ELSE IF a[2] # 0 THEN 14 + BitsOf(a[2])
    ELSE BitsOf(a[1])

\* a < b for numbers of four limbs
Less4(a, b) ==
    IF a[4] # b[4] THEN a[4] < b[4]
    ELSE IF a[3] # b[3] THEN a[3] < b[3]
    ELSE IF a[2] # b[2] THEN a[2] < b[2]
    ELSE a[1] < b[1]

\* a + b for numbers of four limbs: <<limb 1, .. limb 4, carry>>
Add4(a, b) ==
    LET t1 == a[1] + b[1]
        t2 == a[2] + b[2] + (t1 \div 16384)
        t3 == a[3] + b[3] + (t2 \div 16384)
        t4 == a[4] + b[4] + (t3 \div 16384)
    IN  <<t1 % 16384, t2 % 16384, t3 % 16384, t4 % 16384, t4 \div 16384>>

\* a - b for numbers of four limbs, a >= b
Sub4(a, b) ==
    LET t1 == a[1] - b[1]
        t2 == a[2] - b[2] - (IF t1 < 0 THEN 1 ELSE 0)
        t3 == a[3] - b[3] - (IF t2 < 0 THEN 1 ELSE 0)
        t4 == a[4] - b[4] - (IF t3 < 0 THEN 1 ELSE 0)
    IN  <<(t1 + 16384) % 16384, (t2 + 16384) % 16384, (t3 + 16384) % 16384, t4>>

\* the double nearest to s * g * 2^e for g of 56 bits given by its four limbs: the low
\* three bits of g are the guard bit and two bits that stand for everything under it
RoundGuarded(s, e, g) ==
    Finish(s, e + 3,
           (g[1] \div 8) + ((g[2] % 8) * 2048),
           (g[2] \div 8) + ((g[3] % 8) * 2048),
           (g[3] \div 8) + ((g[4] % 8) * 2048),
           g[4] \div 8,
           (g[1] \div 4) % 2 = 1 /\ (g[1] % 4 # 0 \/ (g[1] \div 8) % 2 = 1))

\* the sum t (four limbs and a carry) of two mantissas of 56 bits, at the exponent of x
SumRound(x, t) ==
    IF t[5] = 0 THEN RoundGuarded(x[1], x[2] - 3, t)
    ELSE RoundGuarded(x[1], x[2] - 2,
                      <<(t[1] \div 2) + ((t[2] % 2) * 8192) + (IF t[1] % 4 = 1 THEN 1 ELSE 0),
                        (t[2] \div 2) + ((t[3] % 2) * 8192),
                        (t[3] \div 2) + ((t[4] % 2) * 8192),
                        (t[4] \div 2) + 8192>>)

\* the difference t of two mantissas of 56 bits, shifted up by n bits to 56 bits again
DiffShifted(x, t, n) == RoundGuarded(x[1], x[2] - 3 - n, ShiftLeft4(t, n))

DiffRound(x, t) ==
    IF t = <<0, 0, 0, 0>> THEN Zero(1) ELSE DiffShifted(x, t, 56 - BitLen4(t))

\* x + y from the mantissas of 56 bits a of x and b of y, b shifted to the exponent of x
AddGuarded(x, y, a, b) ==
    IF x[1] = y[1] THEN SumRound(x, Add4(a, b)) ELSE DiffRound(x, Sub4(a, b))

\* x + y for normal numbers, x not under y in magnitude
AddOrdered(x, y) ==
    AddGuarded(x, y, Times8(x), ShiftRightSticky(Times8(y), x[2] - y[2]))

\* x + y for normal numbers in the middle of the exponent range
AddNormal(x, y) ==
    IF x[2] > y[2] \/ (x[2] = y[2] /\ ~Less4(Mant(x), Mant(y)))
    THEN AddOrdered(x, y)
    ELSE AddOrdered(y, x)

\* the limbs p = <<l4, l5, l6, l7, l8, sticky>> of a product of two mantissas cut to 53
\* bits: bs bits of l4 go, w = 2^bs, v = 2^(14 - bs), h = 2^(bs - 1)
MulCut(s, e, p, w, v, h) ==
    Finish(s, e,
           (p[1] \div w) + ((p[2] % w) * v),
           (p[2] \div w) + ((p[3] % w) * v),
           (p[3] \div w) + ((p[4] % w) * v),
           (p[4] \div w) + (p[5] * v),
           /\ (p[1] \div h) % 2 = 1
           /\ \/ p[1] % h # 0 \/ p[6]
              \/ ((p[1] \div w) + ((p[2] % w) * v)) % 2 = 1)

\* the product has 105 or 106 bits: 10 or 11 bits of l4 are cut off
MulPack(s, e, p, bs) == MulCut(s, e + bs, p, 2 ^ bs, 2 ^ (14 - bs), 2 ^ (bs - 1))

\* x * y for normal numbers in the middle of the exponent range: the eight limbs of the
\* product of the mantissas, cut to 53 bits and rounded
MulLimbs(x, y) ==
    LET t1 == x[6] * y[6]
        t2 == (x[6] * y[5]) + (x[5] * y[6]) + (t1 \div 16384)
        t3 == (x[6] * y[4]) + (x[5] * y[5]) + (x[4] * y[6]) + (t2 \div 16384)
        t4 == (x[6] * y[3]) + (x[5] * y[4]) + (x[4] * y[5]) + (x[3] * y[6]) + (t3 \div 16384)
        t5 == (x[5] * y[3]) + (x[4] * y[4]) + (x[3] * y[5]) + (t4 \div 16384)
        t6 == (x[4] * y[3]) + (x[3] * y[4]) + (t5 \div 16384)
        t7 == (x[3] * y[3]) + (t6 \div 16384)
    IN  <<t4 % 16384, t5 % 16384, t6 % 16384, t7 % 16384, t7 \div 16384,
          t1 % 16384 # 0 \/ t2 % 16384 # 0 \/ t3 % 16384 # 0>>

MulRound(s, e, p) == MulPack(s, e, p, IF p[5] >= 128 THEN 11 ELSE 10)

MulNormal(x, y) == MulRound(x[1] * y[1], x[2] + y[2] + 42, MulLimbs(x, y))

\* v * q for v of four limbs and one limb q: five limbs
MulLimb(v, q) ==
    LET t1 == v[1] * q
        t2 == (v[2] * q) + (t1 \div 16384)
        t3 == (v[3] * q) + (t2 \div 16384)
        t4 == (v[4] * q) + (t3 \div 16384)
    IN  <<t1 % 16384, t2 % 16384, t3 % 16384, t4 % 16384, t4 \div 16384>>

\* p > <<0, r1, r2, r3, r4>> for p of five limbs
Over(p, r) ==
    IF p[5] # r[4] THEN p[5] > r[4]
    ELSE IF p[4] # r[3] THEN p[4] > r[3]
    ELSE IF p[3] # r[2] THEN p[3] > r[2]
    ELSE IF p[2] # r[1] THEN p[2] > r[1]
    ELSE p[1] > 0

\* <<0, r1, r2, r3, r4>> - p, which is under 2^56: four limbs after the digit q
Remainder(q, r, p) ==
    LET t1 == 0 - p[1]
        t2 == r[1] - p[2] - (IF t1 < 0 THEN 1 ELSE 0)
        t3 == r[2] - p[3] - (IF t2 < 0 THEN 1 ELSE 0)
        t4 == r[3] - p[4] - (IF t3 < 0 THEN 1 ELSE 0)
    IN  <<q, (t1 + 16384) % 16384, (t2 + 16384) % 16384, (t3 + 16384) % 16384,
          (t4 + 16384) % 16384>>

\* one step of the long division by v (four limbs, the top one at least 2^13) of the
\* remainder r < v with a zero limb brought down: <<digit, remainder>>; the digit guessed
\* from the top limbs is at most two over, and is lowered until q * v fits
RECURSIVE DivStepWith(_, _, _)
DivStepTried(r, v, q, p) ==
    IF Over(p, r) THEN DivStepWith(r, v, q - 1) ELSE Remainder(q, r, p)

DivStepWith(r, v, q) == DivStepTried(r, v, q, MulLimb(v, q))

DivStepGuess(r, v, g) == DivStepWith(r, v, IF g > 16383 THEN 16383 ELSE g)

DivStep(r, v) == DivStepGuess(r, v, ((r[4] * 16384) + r[3]) \div v[4])

\* the result d of the later steps with the digit q of an earlier step put after its
\* digits
WithDigit(d, q) == SubSeq(d, 1, Len(d) - 1) \o <<q, d[Len(d)]>>

\* n steps of the long division by v, the first of them with the result s: the digits,
\* the last one first, and then whether a remainder is left
RECURSIVE DivStepsFrom(_, _, _)
DivStepsFrom(s, v, n) ==
    IF n = 1 THEN <<s[1], <<s[2], s[3], s[4], s[5]>> # <<0, 0, 0, 0>>>>
    ELSE WithDigit(DivStepsFrom(DivStep(<<s[2], s[3], s[4], s[5]>>, v), v, n - 1), s[1])

\* the digits of floor(u * 2^56 / v) after the first, and whether a remainder is left
DivDigits(r, v) == DivStepsFrom(DivStep(r, v), v, 4)

\* the double nearest to s * (the quotient) * 2^e, for the quotient of 56 or 57 bits with
\* the digits d[4] d[3] d[2] low after its first bit, which is set when first holds:
\* the quotient of 57 bits is halved, its lowest bit kept as a sticky bit
DivRound(s, e, first, d, low) ==
    IF first
    THEN RoundGuarded(s, e + 1,
                      <<(low \div 2) + ((d[2] % 2) * 8192) + (IF low % 4 = 1 THEN 1 ELSE 0),
                        (d[2] \div 2) + ((d[3] % 2) * 8192),
                        (d[3] \div 2) + ((d[4] % 2) * 8192),
                        (d[4] \div 2) + 8192>>)
    ELSE RoundGuarded(s, e, <<low, d[2], d[3], d[4]>>)

\* the lowest digit of d with the remainder left folded in as a sticky bit
DivSticky(s, e, first, d) ==
    DivRound(s, e, first, d, IF d[5] /\ d[1] % 2 = 0 THEN d[1] + 1 ELSE d[1])

\* the quotient of the mantissas u by v, each of 56 bits: its first bit is set when u is
\* not under v, and the digits are those of the rest
DivFirst(s, e, u, v, first) ==
    DivSticky(s, e, first, DivDigits(IF first THEN Sub4(u, v) ELSE u, v))

DivMantissas(s, e, u, v) == DivFirst(s, e, u, v, ~Less4(u, v))

\* x / y for normal numbers in the middle of the exponent range
DivNormal(x, y) == DivMantissas(x[1] * y[1], x[2] - y[2] - 56, Times8(x), Times8(y))

\* x + y
RAdd(x, y) ==
    IF Normal(x) /\ Normal(y) /\ MidRange(x) /\ MidRange(y) THEN AddNormal(x, y)
    ELSE AddAny(x, y)

\* x - y
RSub(x, y) == RAdd(x, RNeg(y))

\* x * y
RMul(x, y) ==
    IF Normal(x) /\ Normal(y) /\ MidRange(x) /\ MidRange(y) THEN MulNormal(x, y)
    ELSE MulAny(x, y)

\* x / y
RDiv(x, y) ==
    IF Normal(x) /\ Normal(y) /\ MidRange(x) /\ MidRange(y) THEN DivNormal(x, y)
    ELSE DivAny(x, y)

\* Math.floor(x): a number with a fraction part has 1 to 52 mantissa bits under the
\* binary point; they are cleared, and a negative number then goes one down
MathFloor(x) ==
    IF ~IsFinite(x) \/ IsZero(x) \/ x[2] >= 0 THEN x
    ELSE IF x[2] <= -MantBits THEN (IF x[1] > 0 THEN Zero(1) ELSE R(-1))
    ELSE LET d == -x[2]
             whole == <<x[1], x[2],
                        IF d <= 42 THEN x[3] ELSE x[3] - (x[3] % P2(d - 42)),
                        IF d >= 42 THEN 0 ELSE IF d <= 28 THEN x[4]
                                           ELSE x[4] - (x[4] % P2(d - 28)),
                        IF d >= 28 THEN 0 ELSE IF d <= 14 THEN x[5]
                                           ELSE x[5] - (x[5] % P2(d - 14)),
                        IF d >= 14 THEN 0 ELSE x[6] - (x[6] % P2(d))>>
         IN  IF x[1] > 0 \/ whole = x THEN whole ELSE RAdd(whole, R(-1))

\* Math.min(x, y) and Math.max(x, y): NaN when either argument is NaN, -0 under +0
MathMin2(x, y) ==
    IF IsNaN(x) \/ IsNaN(y) THEN NaN
    ELSE IF RLt(y, x) THEN y
    ELSE IF RLt(x, y) THEN x
    ELSE IF y[1] < 0 THEN y ELSE x

MathMax2(x, y) ==
    IF IsNaN(x) \/ IsNaN(y) THEN NaN
    ELSE IF RLt(x, y) THEN y
    ELSE IF RLt(y, x) THEN x
    ELSE IF y[1] > 0 THEN y ELSE x

\* Math.min(...values) and Math.max(...values); +Infinity / -Infinity when empty
RECURSIVE MathMin(_)
MathMin(values) ==
    IF values = <<>> THEN PInf ELSE MathMin2(Head(values), MathMin(Tail(values)))

RECURSIVE MathMax(_)
MathMax(values) ==
    IF values = <<>> THEN NInf ELSE MathMax2(Head(values), MathMax(Tail(values)))

\* values.reduce((s, v) => s + v, 0)
RECURSIVE SumFirst(_, _)
SumFirst(values, n) == IF n = 0 THEN R(0) ELSE RAdd(SumFirst(values, n - 1), values[n])

Sum(values) == SumFirst(SubSeq(values, 1, Len(values)), Len(values))

(***************************************************************************)
(* Strings: a string is the sequence of its UTF-16 code units, as in       *)
(* JavaScript ("n/a" is <<110, 47, 97>>).  Number(s), String(x) and        *)
(* parseInt(s) as ECMAScript defines them (StringToNumber,                 *)
(* Number::toString, parseInt).                                            *)
(***************************************************************************)
\* the code units of StrWhiteSpaceChar, which Number() and parseInt() strip: TAB, LF, VT,
\* FF, CR, the space, the no-break space, U+1680, U+2000 to U+200A, the line and the
\* paragraph separator, U+202F, U+205F, U+3000 and U+FEFF
WhiteSpace ==
    {9, 10, 11, 12, 13, 32, 160, 5760, 8192, 8193, 8194, 8195, 8196, 8197, 8198, 8199, 8200,
     8201, 8202, 8232, 8233, 8239, 8287, 12288, 65279}

\* the value of the code unit c as a digit of the radix (0 to 9, then a to z or A to Z for
\* 10 to 35), -1 when it is not one
DigitValue(c, radix) ==
    IF c \in 48..57 /\ c - 48 < radix THEN c - 48
    ELSE IF c \in 97..122 /\ c - 87 < radix THEN c - 87
    ELSE IF c \in 65..90 /\ c - 55 < radix THEN c - 55
    ELSE -1

RECURSIVE TrimLeft(_)
TrimLeft(s) == IF s # <<>> /\ s[1] \in WhiteSpace THEN TrimLeft(Tail(s)) ELSE s

RECURSIVE TrimRight(_)
TrimRight(s) ==
    IF s # <<>> /\ s[Len(s)] \in WhiteSpace THEN TrimRight(SubSeq(s, 1, Len(s) - 1)) ELSE s

\* the number of code units of s from position i on that are digits of the radix
RECURSIVE DigitRun(_, _, _)
DigitRun(s, i, radix) ==
    IF i <= Len(s) /\ DigitValue(s[i], radix) >= 0 THEN 1 + DigitRun(s, i + 1, radix) ELSE 0

\* the natural number written by the digits s[i] .. s[n] after the digits that wrote a;
\* zeros in front are passed over
RECURSIVE NatFrom(_, _, _, _, _)
NatFrom(s, i, n, radix, a) ==
    IF i > n THEN a
    ELSE IF a = <<>> /\ DigitValue(s[i], radix) = 0 THEN NatFrom(s, i + 1, n, radix, a)
    ELSE NatFrom(s, i + 1, n, radix,
                 Trim(BigAdd(BigMulSmall(a, radix), <<DigitValue(s[i], radix)>>)))

\* the number written by the digits s[1] .. s[n], for so few digits that it is under 2^31
RECURSIVE ShortNat(_, _, _)
ShortNat(s, n, radix) ==
    IF n = 0 THEN 0 ELSE ShortNat(s, n - 1, radix) * radix + DigitValue(s[n], radix)

\* the limbs of a number under 2^31
LimbsOf(i) == Trim(<<i % Limb, (i \div Limb) % Limb, i \div (Limb * Limb)>>)

\* the natural number written by the digits s[1] .. s[n]
NatOf(s, n, radix) ==
    IF n <= 7 THEN LimbsOf(ShortNat(s, n, radix)) ELSE NatFrom(s, 1, n, radix, <<>>)

\* exponents are followed up to this value: a greater one gives zero or an infinity
\* whatever it is
ExpCap == 100000

Saturated(t, d) == IF t > ExpCap THEN t ELSE 10 * t + d

\* the number written by the decimal digits s[1] .. s[n], as far as ExpCap
RECURSIVE SmallNatOf(_, _)
SmallNatOf(s, n) ==
    IF n = 0 THEN 0 ELSE Saturated(SmallNatOf(s, n - 1), DigitValue(s[n], 10))

\* 10^16 as a natural number
Pow10Step == <<0, 16132, 12070, 2273>>

\* a * 10^n, sixteen digits at a time
RECURSIVE TimesPow10(_, _)
TimesPow10(a, n) ==
    IF a = <<>> THEN a
    ELSE IF n >= 16 THEN TimesPow10(Trim(BigMul(Pow10Step, a)), n - 16)
    ELSE IF n >= 4 THEN TimesPow10(BigMulSmall(a, 10000), n - 4)
    ELSE IF n > 0 THEN BigMulSmall(a, 10 ^ n)
    ELSE a

\* the greatest q in lo .. hi with q * v <= w
RECURSIVE DigitIn(_, _, _, _)
DigitAt(w, v, lo, hi, mid) ==
    IF BigCmp(BigMulSmall(v, mid), w) <= 0 THEN DigitIn(w, v, mid, hi)
    ELSE DigitIn(w, v, lo, mid - 1)

DigitIn(w, v, lo, hi) == IF lo = hi THEN lo ELSE DigitAt(w, v, lo, hi, (lo + hi + 1) \div 2)

\* long division by any v > 0 of the limbs n[k], n[k-1], .. n[j] brought down onto the
\* remainder r < v: <<quotient, remainder>>
RECURSIVE LongDivRun(_, _, _, _, _)
LongDivAfter(n, k, j, w, v, q) ==
    WithTopDigit(LongDivRun(n, k - 1, j, Trim(BigSub(w, BigMulSmall(v, q))), v), q)

\* the two limbs of w over the top limb of v
TopOf(w, v) == At(w, Len(v) + 1) * Limb + At(w, Len(v))

\* the quotient digit is no less than the top of w by the top limb of v and one, and no
\* more than the top of w by the top limb of v
DigitFrom(w, v, top, hi) ==
    DigitIn(w, v, top \div (v[Len(v)] + 1), IF hi < Limb THEN hi ELSE Limb - 1)

LongDivOn(n, k, j, w, v) ==
    LongDivAfter(n, k, j, w, v, DigitFrom(w, v, TopOf(w, v), TopOf(w, v) \div v[Len(v)]))

LongDivRun(n, k, j, r, v) ==
    IF k < j THEN <<<<>>, r>>
    ELSE IF r = <<>> /\ n[k] = 0 THEN WithTopDigit(LongDivRun(n, k - 1, j, r, v), 0)
    ELSE LongDivOn(n, k, j, <<n[k]>> \o r, v)

\* the quotient of the limbs below put under the quotient of a run
Below(rest, run) == <<rest[1] \o run[1], rest[2]>>

\* long division of the limbs n[k], n[k-1], .. n[1], a run at a time
RECURSIVE LongDiv(_, _, _, _)
LongDivNext(n, j, v, run) == Below(LongDiv(n, j - 1, run[2], v), run)

LongDivFrom(n, k, j, r, v) == LongDivNext(n, j, v, LongDivRun(n, k, j, r, v))

LongDiv(n, k, r, v) ==
    IF k = 0 THEN <<<<>>, r>>
    ELSE IF r = <<>> /\ \A i \in 1..k : n[i] = 0 THEN <<SubSeq(n, 1, k), r>>
    ELSE LongDivFrom(n, k, IF k > RunLen THEN k - RunLen + 1 ELSE 1, r, v)

\* the limbs of a as a sequence
Limbs(a) == SubSeq(a, 1, Len(a))

\* the quotient, and the remainder shifted back down
Unshifted(qr, sh) == <<Trim(qr[1]), Trim(Limbs(ShiftRight(qr[2], sh)))>>

\* n by d with both shifted up so that the top limb of the divisor has its top bit set,
\* which leaves few candidates for a quotient digit
BigDivBy(n, d, sh) ==
    Unshifted(LongDiv(Limbs(ShiftLeft(n, sh)), Len(n) + 1, <<>>, Trim(Limbs(ShiftLeft(d, sh)))),
              sh)

BigDivTrimmed(n, d) == BigDivBy(n, d, LimbBits - BitsOf(d[Len(d)]))

\* <<quotient, remainder>> of n by d > 0
BigDiv(n, d) == BigDivTrimmed(n, Trim(d))

\* the decimal exponents beyond which every literal is an infinity, or zero
MaxDecExp == 310

MinDecExp == -330

\* the double nearest to s * D / T, the quotient taken with k more bits
DecimalQuotient(s, D, T, k) == DivRoundBig(s, -k, BigDiv(ShiftLeft(D, k), T))

DecimalFraction(s, D, T, k) == DecimalQuotient(s, D, T, IF k > 0 THEN k ELSE 0)

DecimalOver(s, D, T) == DecimalFraction(s, D, T, BitLen(T) - BitLen(D) + 64)

\* the double nearest to s * D * 10^E, for a natural number D of at most nd digits
DecimalValue(s, D, E, nd) ==
    IF D = <<>> THEN Zero(s)
    ELSE IF E > MaxDecExp THEN Inf(s)
    ELSE IF E + nd < MinDecExp THEN Zero(s)
    ELSE IF E >= 0 THEN RoundBig(s, TimesPow10(D, E), 0, FALSE)
    ELSE DecimalOver(s, D, TimesPow10(<<1>>, -E))

\* the exponent part: its digits r, after the sign es
ExponentDigits(s, D, nd, n2, es, r) ==
    IF r = <<>> \/ DigitRun(r, 1, 10) # Len(r) THEN NaN
    ELSE DecimalValue(s, D, es * SmallNatOf(r, Len(r)) - n2, nd)

ExponentSigned(s, D, nd, n2, r) ==
    IF r # <<>> /\ r[1] \in {43, 45}           \* + or -
    THEN ExponentDigits(s, D, nd, n2, IF r[1] = 45 THEN -1 ELSE 1, Tail(r))
    ELSE ExponentDigits(s, D, nd, n2, 1, r)

\* what follows the mantissa: nothing, or e or E and an exponent
DecimalExponent(s, D, nd, n2, rest) ==
    IF rest = <<>> THEN DecimalValue(s, D, -n2, nd)
    ELSE IF rest[1] \notin {101, 69} THEN NaN  \* e or E
    ELSE ExponentSigned(s, D, nd, n2, Tail(rest))

\* the mantissa: n1 digits, then (pt = 1) a point and n2 digits; one digit at least
DecimalMantissa(s, u, n1, n2, pt) ==
    IF n1 + n2 = 0 THEN NaN
    ELSE DecimalExponent(s, NatOf(SubSeq(u, 1, n1) \o SubSeq(u, n1 + 2, n1 + 1 + n2), n1 + n2, 10),
                         n1 + n2, n2, SubSeq(u, n1 + pt + n2 + 1, Len(u)))

DecimalAfterInt(s, u, n1) ==
    IF n1 < Len(u) /\ u[n1 + 1] = 46           \* the point
    THEN DecimalMantissa(s, u, n1, DigitRun(u, n1 + 2, 10), 1)
    ELSE DecimalMantissa(s, u, n1, 0, 0)

\* an unsigned decimal literal
DecimalLiteral(s, u) == DecimalAfterInt(s, u, DigitRun(u, 1, 10))

\* what may follow a sign: "Infinity" or an unsigned decimal literal
SignedLiteral(s, u) ==
    IF u = <<73, 110, 102, 105, 110, 105, 116, 121>> THEN Inf(s) ELSE DecimalLiteral(s, u)

\* 0x, 0o, 0b and digits of the radix
PrefixedLiteral(t, radix) ==
    IF Len(t) > 2 /\ DigitRun(t, 3, radix) = Len(t) - 2
    THEN RoundBig(1, NatOf(SubSeq(t, 3, Len(t)), Len(t) - 2, radix), 0, FALSE)
    ELSE NaN

RadixOf(t) ==
    IF Len(t) >= 2 /\ t[1] = 48                 \* 0
    THEN (IF t[2] \in {120, 88} THEN 16         \* x or X
          ELSE IF t[2] \in {111, 79} THEN 8     \* o or O
          ELSE IF t[2] \in {98, 66} THEN 2 ELSE 10)  \* b or B
    ELSE 10

TrimmedToNumber(t, radix) ==
    IF t = <<>> THEN Zero(1)
    ELSE IF radix # 10 THEN PrefixedLiteral(t, radix)
    ELSE IF t[1] = 43 THEN SignedLiteral(1, Tail(t))    \* +
    ELSE IF t[1] = 45 THEN SignedLiteral(-1, Tail(t))   \* -
    ELSE SignedLiteral(1, t)

NumberOfTrimmed(t) == TrimmedToNumber(t, RadixOf(t))

\* Number(s) of a string: the StringNumericLiteral grammar; the empty and the blank
\* string are 0, what is no literal is NaN
StringToNumber(s) == NumberOfTrimmed(TrimRight(TrimLeft(s)))

\* the four decimal digits of r < 10000
FourDigits(r) ==
    <<48 + (r \div 1000), 48 + ((r \div 100) % 10), 48 + ((r \div 10) % 10), 48 + (r % 10)>>

\* the decimal digits of 0 < r < 10000
FewDigits(r) ==
    SubSeq(FourDigits(r), IF r >= 1000 THEN 1 ELSE IF r >= 100 THEN 2 ELSE IF r >= 10 THEN 3 ELSE 4, 4)

\* the decimal digits of a natural number, four at a time
RECURSIVE DigitsOf(_)
DigitsAfter(qr) == DigitsOf(qr[1]) \o FourDigits(At(qr[2], 1))

\* the decimal digits of 0 < i < 2^31
RECURSIVE ShortDigits(_)
ShortDigits(i) ==
    IF i < 10000 THEN FewDigits(i) ELSE ShortDigits(i \div 10000) \o FourDigits(i % 10000)

DigitsOf(n) ==
    IF n = <<>> THEN <<>>
    ELSE IF Len(n) <= 2 THEN ShortDigits(n[1] + At(n, 2) * Limb)
    ELSE DigitsAfter(BigDiv(n, <<10000>>))

RECURSIVE Zeros(_)
Zeros(n) == IF n <= 0 THEN <<>> ELSE <<48>> \o Zeros(n - 1)

RECURSIVE DropZeros(_)
DropZeros(ds) ==
    IF ds # <<>> /\ ds[Len(ds)] = 48 THEN DropZeros(SubSeq(ds, 1, Len(ds) - 1)) ELSE ds

\* -1, 0, 1 as num / den is under, equal to or over 10^p
Pow10Cmp(num, den, p) ==
    IF p >= 0 THEN BigCmp(num, TimesPow10(den, p)) ELSE BigCmp(TimesPow10(num, -p), den)

\* a number has at most this many significant digits in its shortest decimal
MaxDigits == 17

\* the n with 10^(n - 1) <= num / den < 10^n, from an estimate
RECURSIVE DecExp(_, _, _)
DecExp(num, den, n) ==
    IF Pow10Cmp(num, den, n) >= 0 THEN DecExp(num, den, n + 1)
    ELSE IF Pow10Cmp(num, den, n - 1) < 0 THEN DecExp(num, den, n - 1)
    ELSE n

\* the quotient qr[1] rounded to the nearest whole number from the remainder qr[2] of the
\* division by d, a half going to the even one
Nearest(qr, half) ==
    IF half > 0 \/ (half = 0 /\ At(qr[1], 1) % 2 = 1) THEN Trim(BigAdd(qr[1], <<1>>)) ELSE qr[1]

NearestOf(qr, d) == Nearest(qr, BigCmp(ShiftLeft(qr[2], 1), d))

\* of the two whole numbers around the quotient, the one that is not the nearest
FartherOf(qr, near) == IF near = qr[1] THEN Trim(BigAdd(qr[1], <<1>>)) ELSE qr[1]

\* <<nearest, farther>> of the whole numbers around a / b
AroundQuotient(qr, near) == <<near, FartherOf(qr, near)>>

AroundOf(qr, d) == AroundQuotient(qr, NearestOf(qr, d))

Around(a, b) == AroundOf(BigDiv(a, b), Trim(b))

\* <<nearest, farther>> of the whole numbers around num / den * 10^p
Scaled(num, den, p) ==
    IF p >= 0 THEN Around(TimesPow10(num, p), den) ELSE Around(num, TimesPow10(den, -p))

\* the decimal c * 10^(n - k) converts back to x
RoundTrips(x, c, n, k) == DecimalValue(1, c, n - k, k + 1) = x

\* <<digits, n>> of the decimal 0.digits * 10^n that c * 10^(n - k) is
DigitsAt(ds, n, k) == <<DropZeros(ds), n - k + Len(ds)>>

\* one of the two decimals of k digits around x converts back to x; one of 17 digits does
ConvertsBack(x, cs, n, k) ==
    k >= MaxDigits \/ RoundTrips(x, cs[1], n, k) \/ RoundTrips(x, cs[2], n, k)

HasDecimal(x, num, den, n, k) == ConvertsBack(x, Scaled(num, den, k - n), n, k)

\* the least number of digits of a decimal that converts back to x
ShortestLength(x, num, den, n) ==
    CHOOSE k \in 1..MaxDigits :
        /\ HasDecimal(x, num, den, n, k)
        /\ \A j \in 1..(k - 1) : ~HasDecimal(x, num, den, n, j)

\* of the two decimals of k digits around x, the nearest if it converts back to x
Chosen(x, cs, n, k) ==
    IF k >= MaxDigits \/ RoundTrips(x, cs[1], n, k) THEN DigitsAt(DigitsOf(cs[1]), n, k)
    ELSE DigitsAt(DigitsOf(cs[2]), n, k)

\* the digits of the shortest decimal that converts back to x = num / den, and the
\* decimal exponent that goes with them: <<digits, n>> for x = 0.digits * 10^n
ShortestOf(x, num, den, n, k) == Chosen(x, Scaled(num, den, k - n), n, k)

Shortest(x, num, den, n) == ShortestOf(x, num, den, n, ShortestLength(x, num, den, n))

ShortestFrom(x, num, den, est) == Shortest(x, num, den, DecExp(num, den, est))

\* a whole number under 2^53 is written by its own digits
WholeDigits(ds) == <<DropZeros(ds), Len(ds)>>

\* a positive finite number as <<digits, n>>
ShortestDigits(x) ==
    IF x[2] <= 0 /\ x[2] > -MantBits /\ ~LowNonZero(Mant(x), -x[2])
    THEN WholeDigits(DigitsOf(Trim(ShiftRight(Mant(x), -x[2]))))
    ELSE ShortestFrom(x, ShiftLeft(Mant(x), IF x[2] > 0 THEN x[2] ELSE 0),
                      ShiftLeft(<<1>>, IF x[2] < 0 THEN -x[2] ELSE 0),
                      ((BitLen(Trim(Mant(x))) + x[2] - 1) * 1233) \div 4096)

\* the exponent part of the exponential notation
ExponentText(e) == <<101, IF e < 0 THEN 45 ELSE 43>> \o DigitsOf(<<AbsInt(e)>>)

\* Number::toString from the digits and the decimal exponent
Formatted(ds, n) ==
    IF Len(ds) <= n /\ n <= 21 THEN ds \o Zeros(n - Len(ds))
    ELSE IF 0 < n /\ n <= 21 THEN SubSeq(ds, 1, n) \o <<46>> \o SubSeq(ds, n + 1, Len(ds))
    ELSE IF -6 < n /\ n <= 0 THEN <<48, 46>> \o Zeros(-n) \o ds
    ELSE <<ds[1]>> \o (IF Len(ds) > 1 THEN <<46>> \o Tail(ds) ELSE <<>>) \o ExponentText(n - 1)

FormattedPair(p) == Formatted(p[1], p[2])

Minus(x) == IF x[1] < 0 THEN <<45>> ELSE <<>>

\* String(x) of a number
NumberToString(x) ==
    IF IsNaN(x) THEN <<78, 97, 78>>                      \* "NaN"
    ELSE IF IsZero(x) THEN <<48>>                        \* "0"
    ELSE IF IsInf(x) THEN Minus(x) \o <<73, 110, 102, 105, 110, 105, 116, 121>>  \* "Infinity"
    ELSE Minus(x) \o FormattedPair(ShortestDigits(MathAbs(x)))

\* parseInt(s): the whole number written by the longest run of digits after the white
\* space, the sign and, for radix 16, the prefix 0x; NaN where there is no digit
ParseIntRun(s, u, radix, n) ==
    IF n = 0 THEN NaN ELSE RoundBig(s, NatOf(u, n, radix), 0, FALSE)

ParseIntDigits(s, u, radix) == ParseIntRun(s, u, radix, DigitRun(u, 1, radix))

ParseIntRadix(s, u) ==
    IF Len(u) >= 2 /\ u[1] = 48 /\ u[2] \in {120, 88}     \* 0x or 0X
    THEN ParseIntDigits(s, SubSeq(u, 3, Len(u)), 16)
    ELSE ParseIntDigits(s, u, 10)

ParseIntSigned(t) ==
    IF t # <<>> /\ t[1] \in {43, 45}                     \* + or -
    THEN ParseIntRadix(IF t[1] = 45 THEN -1 ELSE 1, Tail(t))
    ELSE ParseIntRadix(1, t)

ParseInt(s) == ParseIntSigned(TrimLeft(s))

(***************************************************************************)
(* Cells of the parsed file (Papa.parse with header and dynamicTyping): a  *)
(* number, null (a blank cell), a string that Papa.parse has not typed, or *)
(* undefined (the field is missing from a row shorter than the header).    *)
(* The numbers Papa.parse has typed are whole numbers in the files of the  *)
(* model.                                                                  *)
(***************************************************************************)
\* a cell that holds the number x
NumCell(x) == [k |-> "num", v |-> x]

Num(i) == NumCell(R(i))

Blank == [k |-> "blank", v |-> 0]

\* a cell that holds the string s
Text(s) == [k |-> "text", v |-> s]

Missing == [k |-> "missing", v |-> 0]

\* ToNumber of a cell, as applied by -, /, >= and Number(): null is 0, undefined is NaN,
\* a string is the number it writes or NaN
ToNumber(c) ==
    IF c.k = "num" THEN c.v
    ELSE IF c.k = "blank" THEN R(0)
    ELSE IF c.k = "text" THEN StringToNumber(c.v)
    ELSE NaN

\* ToString of a cell, as applied by + when an operand is a string and by the value
\* attribute of an option
ToStr(c) ==
    IF c.k = "num" THEN NumberToString(c.v)
    ELSE IF c.k = "text" THEN c.v
    ELSE IF c.k = "blank" THEN <<110, 117, 108, 108>>                        \* "null"
    ELSE <<117, 110, 100, 101, 102, 105, 110, 101, 100>>                     \* "undefined"

\* a + b: the concatenation when an operand is a string, otherwise the sum of the numbers
Plus(a, b) ==
    IF a.k = "text" \/ b.k = "text" THEN Text(ToStr(a) \o ToStr(b))
    ELSE NumCell(RAdd(ToNumber(a), ToNumber(b)))

\* x || other for a number x: 0, -0 and NaN are falsy
NumberOr(x, other) == IF IsNaN(x) \/ IsZero(x) THEN other ELSE x

\* Number(x) || 0 of variant 3
NumberOrZero(c) == NumCell(NumberOr(ToNumber(c), R(0)))

\* Number(x) || NaN of variant 3
NumberOrNaN(c) == NumCell(NumberOr(ToNumber(c), NaN))

\* truthiness of a cell: a number other than 0 and NaN, or a string that is not empty
Truthy(c) ==
    \/ c.k = "num" /\ ~IsZero(c.v) /\ ~IsNaN(c.v)
    \/ c.k = "text" /\ c.v # <<>>

\* the baseline period
BaselineFirst == 1991

BaselineLast == 2020

\* d.water_year >= 1991 && d.water_year <= 2020
InBaseline(d) ==
    LET y == ToNumber(d.water_year)
    IN  RGe(y, R(BaselineFirst)) /\ RLe(y, R(BaselineLast))

\* d.water_year !== undefined && d.water_year !== null && d.water_year !== ''
HasYear(d) ==
    /\ d.water_year.k \notin {"blank", "missing"}
    /\ d.water_year # Text(<<>>)

\* the row with every cell typed by Number()
TypedRow(d) ==
    [water_year |-> NumberOrNaN(d.water_year),
     apr1_swe_mm |-> NumberOrZero(d.apr1_swe_mm),
     fall_sm_oct_nov_avg_mm |-> NumberOrZero(d.fall_sm_oct_nov_avg_mm),
     spring_precip_apr_jul_mm |-> NumberOrZero(d.spring_precip_apr_jul_mm),
     key_streamflow_apr_jul_mm |-> NumberOrZero(d.key_streamflow_apr_jul_mm),
     total_streamflow_mm |-> NumberOrZero(d.total_streamflow_mm)]

TypedRows(present) == SubSeq([i \in 1..Len(present) |-> TypedRow(present[i])], 1, Len(present))

\* variant 3: rows with a water_year cell, typed by Number(), rows with a NaN year dropped
ParseRowsV3(rows) ==
    SelectSeq(TypedRows(SelectSeq(rows, HasYear)), LAMBDA d : ~IsNaN(d.water_year.v))

\* variants 1 and 2: results.data.filter(d => d.water_year)
ParseRowsV12(rows) == SelectSeq(rows, LAMBDA d : Truthy(d.water_year))

ParseRows(v, rows) == IF v = 3 THEN ParseRowsV3(rows) ELSE ParseRowsV12(rows)

\* the rows without the baseline filter
AllRows(data) == data

\* data.filter(d => d.water_year >= 1991 && d.water_year <= 2020)
BaselineData(data) == SelectSeq(data, InBaseline)

\* the column the streamflow mean and percent are taken from
StreamflowCell(v, d) == IF v = 2 THEN d.total_streamflow_mm ELSE d.key_streamflow_apr_jul_mm

\* eps = 1e-9: the double nearest to 10^-9
Eps == <<1, -82, 1099, 8382, 8347, 5781>>

\* x || eps: 0, -0 and NaN are falsy
OrEps(x) == IF IsNaN(x) \/ IsZero(x) THEN Eps ELSE x

\* variant 3: safeMean(arr, accessor); every typed cell is a number
safeMean(cells) ==
    LET vals == SelectSeq(cells, LAMBDA c : c.k = "num")
        n == IF Len(vals) > 1 THEN Len(vals) ELSE 1
    IN  RDiv(Sum([i \in 1..Len(vals) |-> vals[i].v]), R(n))

\* arr.reduce((sum, d) => sum + d.col, 0) over the first n cells: a number, or a string
\* from the first string cell on
RECURSIVE ReduceSum(_, _)
ReduceSum(cells, n) == IF n = 0 THEN Num(0) ELSE Plus(ReduceSum(cells, n - 1), cells[n])

\* variants 1 and 2: arr.reduce((sum, d) => sum + d.col, 0) / arr.length
ReduceMean(cells) == RDiv(ToNumber(ReduceSum(cells, Len(cells))), R(Len(cells)))

ColumnMean(v, cells) == IF v = 3 THEN OrEps(safeMean(cells)) ELSE ReduceMean(cells)

\* the four columns the means are taken of
CellColumns(v, b) ==
    <<[i \in 1..Len(b) |-> b[i].apr1_swe_mm],
      [i \in 1..Len(b) |-> b[i].fall_sm_oct_nov_avg_mm],
      [i \in 1..Len(b) |-> b[i].spring_precip_apr_jul_mm],
      [i \in 1..Len(b) |-> StreamflowCell(v, b[i])]>>

ColumnMeans(v, cols) == SubSeq([k \in 1..4 |-> ColumnMean(v, cols[k])], 1, 4)

MeansRecord(m) ==
    [swe |-> m[1], fallSM |-> m[2], springPrecip |-> m[3], streamflow |-> m[4]]

\* the means object
Means(v, data) == MeansRecord(ColumnMeans(v, CellColumns(v, BaselineData(data))))

\* the ratio without the scaling to percent
PctUnscaled(c, mean) == RDiv(ToNumber(c), mean)

\* (raw / mean) * 100
Pct(c, mean) == RMul(RDiv(ToNumber(c), mean), R(100))

\* the four raw values of a row, and the four means, in the order swe, fallSM,
\* springPrecip, streamflow
RawCells(v, d) ==
    <<d.apr1_swe_mm, d.fall_sm_oct_nov_avg_mm, d.spring_precip_apr_jul_mm,
      StreamflowCell(v, d)>>

MeanList(means) == <<means.swe, means.fallSM, means.springPrecip, means.streamflow>>

Pcts(cells, means) == SubSeq([k \in 1..4 |-> Pct(cells[k], means[k])], 1, 4)

\* one record of processedData; idx is the identity of the record object (its row
\* position)
YearRecord(i, year, mm, pct) ==
    [idx |-> i,
     year |-> year,
     swe_mm |-> mm[1],
     fallSM_mm |-> mm[2],
     springPrecip_mm |-> mm[3],
     streamflow_mm |-> mm[4],
     swe_pct |-> pct[1],
     fallSM_pct |-> pct[2],
     springPrecip_pct |-> pct[3],
     streamflow_pct |-> pct[4]]

\* processedData
ProcessedData(v, data, means) ==
    [i \in 1..Len(data) |->
        YearRecord(i, data[i].water_year, RawCells(v, data[i]),
                   Pcts(RawCells(v, data[i]), MeanList(means)))]

\* the percent series of one variable
Series(years, f) == [i \in 1..Len(years) |-> years[i][f]]

\* variant 3: safeRange(vals); variants 1 and 2: Math.min(...vals), Math.max(...vals)
Range(v, vals) ==
    IF v = 3 /\ Len(vals) = 0 THEN [min |-> R(100), max |-> R(100)]
    ELSE [min |-> MathMin(vals), max |-> MathMax(vals)]

Ranges(v, years) ==
    [swe_pct |-> Range(v, Series(years, "swe_pct")),
     fallSM_pct |-> Range(v, Series(years, "fallSM_pct")),
     springPrecip_pct |-> Range(v, Series(years, "springPrecip_pct")),
     streamflow_pct |-> Range(v, Series(years, "streamflow_pct"))]

(***************************************************************************)
(* Histogram Builder                                                       *)
(***************************************************************************)
\* numBins = 15
NumBins == 15

\* 1e-6 (the double nearest to 10^-6), the width under which variant 3 takes the series
\* to be constant
FlatWidth == <<1, -72, 1073, 12154, 727, 11661>>

\* the literal 0.5
Half == <<1, -53, 1024, 0, 0, 0>>

\* the bucket index without the clamp into the last bin
BinIndexUnclamped(x, min, binWidth, numBins) == MathFloor(RDiv(RSub(x, min), binWidth))

\* Math.min(Math.floor((v - min) / binWidth), numBins - 1)
BinIndex(x, min, binWidth, numBins) ==
    MathMin2(MathFloor(RDiv(RSub(x, min), binWidth)), R(numBins - 1))

\* bins.map(...): the bins of width binWidth from min, bin i counting the values whose
\* index idx is i - 1; an index that is not one of 0 .. numBins-1 (NaN) is in no bin
BinsOfWidth(idx, numBins, min, binWidth) ==
    [i \in 1..numBins |->
        [value |-> RAdd(min, RMul(RAdd(R(i - 1), Half), binWidth)),
         count |-> Cardinality({j \in 1..Len(idx) : REq(idx[j], R(i - 1))}),
         binStart |-> RAdd(min, RMul(R(i - 1), binWidth)),
         binEnd |-> RAdd(min, RMul(R(i), binWidth))]]

\* values.forEach(v => bins[idx]++): the index of every value
BinIndexes(values, numBins, min, binWidth) ==
    SubSeq([j \in 1..Len(values) |-> BinIndex(values[j], min, binWidth, numBins)],
           1, Len(values))

BinsFrom(values, numBins, min, binWidth) ==
    BinsOfWidth(BinIndexes(values, numBins, min, binWidth), numBins, min, binWidth)

\* the numBins bins between Math.min(...values) and Math.max(...values), of width
\* (max - min) / numBins
EqualWidthBins(values, numBins) ==
    BinsFrom(values, numBins, MathMin(values),
             RDiv(RSub(MathMax(values), MathMin(values)), R(numBins)))

\* variant 3: empty and constant series are handled before binning
createHistogramV3(values, numBins) ==
    IF Len(values) = 0 THEN <<>>
    ELSE LET min == MathMin(values)
             max == MathMax(values)
         IN  IF RLt(MathAbs(RSub(max, min)), FlatWidth)
             THEN <<[value |-> min, count |-> Len(values),
                     binStart |-> RSub(min, Half), binEnd |-> RAdd(min, Half)]>>
             ELSE EqualWidthBins(values, numBins)

\* variants 1 and 2: no special case
createHistogramV12(values, numBins) == EqualWidthBins(values, numBins)

createHistogram(v, values, numBins) ==
    IF v = 3 THEN createHistogramV3(values, numBins) ELSE createHistogramV12(values, numBins)

\* the percent fields, in the order swe, fallSM, springPrecip, streamflow
PctFieldList == <<"swe_pct", "fallSM_pct", "springPrecip_pct", "streamflow_pct">>

HistogramList(v, years) ==
    SubSeq([k \in 1..4 |->
               IF v = 1 /\ k = 4 THEN <<>>
               ELSE createHistogram(v, Series(years, PctFieldList[k]), NumBins)], 1, 4)

HistogramsRecord(h) ==
    [swe |-> h[1], fallSM |-> h[2], springPrecip |-> h[3], streamflow |-> h[4]]

\* the histograms object; variant 1 builds no streamflow histogram
Histograms(v, years) == HistogramsRecord(HistogramList(v, years))

(***************************************************************************)
(* Sensitivity Estimator and Forecast Engine (the forecast effect)         *)
(***************************************************************************)
\* the analog tolerance in percentage points
Tolerance == 15

\* the length the analog list is cut to
MaxAnalogs == 5

\* years.map(y => y[f] - 100), as an array
Deviations(years, f) ==
    SubSeq([j \in 1..Len(years) |-> RSub(years[j][f], R(100))], 1, Len(years))

\* the quotient without the test of the denominator
SlopeUnguarded(years, f) ==
    LET X == Deviations(years, f)
        Y == Deviations(years, "streamflow_pct")
    IN  RDiv(Sum([j \in 1..Len(years) |-> RMul(X[j], Y[j])]),
             Sum([j \in 1..Len(years) |-> RMul(X[j], X[j])]))

\* sumXY and sumX2 of the deviations X and Y
SumOfProducts(X, Y) == Sum([j \in 1..Len(X) |-> RMul(X[j], Y[j])])

SlopeOfSums(sumXY, sumX2) == IF RGt(sumX2, R(0)) THEN RDiv(sumXY, sumX2) ELSE R(0)

SlopeOfDeviations(X, Y) == SlopeOfSums(SumOfProducts(X, Y), SumOfProducts(X, X))

\* beta[i] = sumX2 > 0 ? sumXY / sumX2 : 0, over all records
Slope(years, f) ==
    SlopeOfDeviations(Deviations(years, f), Deviations(years, "streamflow_pct"))

\* a fit whose snow coefficient is scaled by the current snow input
BetaScaledByInput(years) ==
    <<RMul(Slope(years, "swe_pct"), RDiv(sweApr1Pct, R(100))),
      Slope(years, "fallSM_pct"), Slope(years, "springPrecip_pct")>>

Beta(years) ==
    <<Slope(years, "swe_pct"), Slope(years, "fallSM_pct"), Slope(years, "springPrecip_pct")>>

\* 100 + sweContrib + fallContrib + springContrib
RawForecast(beta, swe, fallSM, springPrecip) ==
    RAdd(RAdd(RAdd(R(100), RMul(RSub(swe, R(100)), beta[1])),
              RMul(RSub(fallSM, R(100)), beta[2])),
         RMul(RSub(springPrecip, R(100)), beta[3]))

\* Math.max(ranges.streamflow_pct.min, Math.min(ranges.streamflow_pct.max, x))
Clamp(range, x) == MathMax2(range.min, MathMin2(range.max, x))

\* the filter of the analog search
WithinTolerance(y, swe, fallSM, springPrecip) ==
    /\ RLe(MathAbs(RSub(y.swe_pct, swe)), R(Tolerance))
    /\ RLe(MathAbs(RSub(y.fallSM_pct, fallSM)), R(Tolerance))
    /\ RLe(MathAbs(RSub(y.springPrecip_pct, springPrecip)), R(Tolerance))

\* the comparator (a, b) => b.streamflow_mm - a.streamflow_mm is positive: b goes first
ComesAfter(a, b) == RGt(RSub(ToNumber(b.streamflow_mm), ToNumber(a.streamflow_mm)), R(0))

\* Array.prototype.sort, which is stable: x is placed behind every element it does not
\* have to precede
RECURSIVE InsertSorted(_, _)
InsertSorted(sorted, x) ==
    IF sorted = <<>> THEN <<x>>
    ELSE LET last == sorted[Len(sorted)]
         IN  IF ComesAfter(last, x)
             THEN Append(InsertSorted(SubSeq(sorted, 1, Len(sorted) - 1), x), last)
             ELSE Append(sorted, x)

RECURSIVE SortByStreamflow(_)
SortByStreamflow(s) ==
    IF s = <<>> THEN <<>>
    ELSE InsertSorted(SortByStreamflow(SubSeq(s, 1, Len(s) - 1)), s[Len(s)])

\* .slice(0, n)
Slice(s, n) == SubSeq(s, 1, IF Len(s) < n THEN Len(s) ELSE n)

\* the comparator is not a consistent one on s: it returns NaN, which sort reads as
\* "equal", for a record whose streamflow is not a number, and it orders two other records
Inconsistent(s) ==
    /\ \E i \in 1..Len(s) : IsNaN(ToNumber(s[i].streamflow_mm))
    /\ \E i \in 1..Len(s) : \E j \in 1..Len(s) : ComesAfter(s[i], s[j])

\* the orders of the elements of s
Permuted(s) == {[i \in 1..Len(s) |-> s[p[i]]] : p \in Permutations(1..Len(s))}

\* the results sort can give: with a consistent comparator the stable order; with an
\* inconsistent one the order is left to the engine, and any order of the elements can
\* be the result
SortOutcomes(s) == IF Inconsistent(s) THEN Permuted(s) ELSE {SortByStreamflow(s)}

\* the sorted survivors, not cut
AnalogsUncut(years, swe, fallSM, springPrecip) ==
    SortOutcomes(SelectSeq(years, LAMBDA y : WithinTolerance(y, swe, fallSM, springPrecip)))

\* years.filter(...).sort(...).slice(0, 5): the lists the expression can give
Analogs(years, swe, fallSM, springPrecip) ==
    {Slice(o, MaxAnalogs) :
        o \in SortOutcomes(SelectSeq(years,
                  LAMBDA y : WithinTolerance(y, swe, fallSM, springPrecip)))}

(***************************************************************************)
(* The input file: the rows Papa.parse hands to its complete callback      *)
(***************************************************************************)
Row(y, swe, fall, spring, key, total) ==
    [water_year |-> y, apr1_swe_mm |-> swe, fall_sm_oct_nov_avg_mm |-> fall,
     spring_precip_apr_jul_mm |-> spring, key_streamflow_apr_jul_mm |-> key,
     total_streamflow_mm |-> total]

\* the longest file of the main specification
MaxRows == 2

\* the longest file of the specification with long files
MaxRowsLong == 6

\* rows of the main specification: two baseline years, a non-baseline year within the
\* tolerance of the first and with the same streamflow, and a baseline year whose every
\* measurement is zero (alone in the baseline it leaves every mean to the epsilon of
\* variant 3, and the percents of the other rows near 10^12)
RowPool ==
    { Row(Num(1991), Num(10), Num(10), Num(10), Num(10), Num(20)),
      Row(Num(2020), Num(20), Num(10), Num(60), Num(30), Num(40)),
      Row(Num(1990), Num(11), Num(10), Num(10), Num(10), Num(20)),
      Row(Num(2000), Num(0), Num(0), Num(0), Num(0), Num(0)) }

\* rows of the long files: two baseline years, the second with more snow and more
\* streamflow; how far apart their percents are depends on how many of each the file has
RowPoolLong ==
    { Row(Num(1991), Num(20), Num(10), Num(10), Num(10), Num(20)),
      Row(Num(2000), Num(24), Num(10), Num(10), Num(12), Num(24)) }

\* the longest file of the specification with untyped cells
MaxRowsCells == 2

\* rows with cells that are not numbers: a complete baseline year, baseline years whose
\* snow cell is blank, a string or missing, rows whose year is a string or blank, and a
\* row whose year is a string that writes the number 1999 between white space (a no-break
\* space, "0x7CF", a line separator) and whose snow cell is a string that writes a number
\* only after the digits of a sum ("10" + "e1" is "10e1"); <<110, 47, 97>> is "n/a"
RowPoolCells ==
    { Row(Num(1991), Num(10), Num(10), Num(10), Num(10), Num(20)),
      Row(Num(2000), Blank, Num(10), Num(10), Num(10), Num(20)),
      Row(Num(2000), Text(<<110, 47, 97>>), Num(10), Num(10), Num(10), Num(20)),
      Row(Num(2010), Missing, Num(10), Num(10), Num(10), Num(20)),
      Row(Text(<<110, 47, 97>>), Num(10), Num(10), Num(10), Num(10), Num(20)),
      Row(Blank, Num(10), Num(10), Num(10), Num(10), Num(20)),
      Row(Text(<<160, 48, 120, 55, 67, 70, 8232>>), Text(<<101, 49>>), Num(10), Num(10), Num(10),
          Num(20)) }

\* the longest file of the specification with odd streamflow cells
MaxRowsFlow == 3

\* rows whose streamflow makes the pipeline degenerate: three baseline years with the same
\* predictors, one of them with a total streamflow that is the string "n/a"
RowPoolFlow ==
    { Row(Num(1991), Num(10), Num(10), Num(10), Num(10), Num(20)),
      Row(Num(1992), Num(10), Num(10), Num(10), Num(10), Text(<<110, 47, 97>>)),
      Row(Num(2010), Num(10), Num(10), Num(10), Num(30), Num(40)) }

\* the longest file of the specification of the histograms
MaxRowsBins == 3

\* rows for the histograms: four baseline years with different values in every column
\* but the key streamflow.  With the first three in a file the snow percents are 33.3..,
\* 66.6.. and 200 and the middle one equals the computed end of the bin it is counted in;
\* the soil moisture percents are 13.0.., 117.3.. and 169.5.. and the middle one is under
\* the computed start of its bin; the middle precipitation percent, 61.9.., is in the
\* middle of the second bin
RowPoolBins ==
    { Row(Num(1991), Num(1), Num(1), Num(10), Num(10), Num(20)),
      Row(Num(1992), Num(2), Num(9), Num(13), Num(10), Num(30)),
      Row(Num(1993), Num(6), Num(13), Num(40), Num(10), Num(40)),
      Row(Num(1994), Num(3), Num(5), Num(25), Num(10), Num(50)) }

Files(pool, n) == UNION {[1..k -> pool] : k \in 0..n}

(***************************************************************************)
(* The component: state after the first render                             *)
(***************************************************************************)
NullData == [isNull |-> TRUE]

InitWith(variants, pool, n) ==
    /\ variant \in variants
    /\ file \in Files(pool, n)
    /\ pc = "fetching"
    /\ effectPending = TRUE
    /\ historicalData = NullData
    /\ loading = TRUE
    /\ error = "null"
    /\ sweApr1Pct = R(100)
    /\ fallSMPct = R(100)
    /\ springPrecipPct = R(100)
    /\ forecastedFlowPct = R(100)
    /\ forecastedFlowMM = R(0)
    /\ analogYears = <<>>
    /\ regressionBeta = <<R(0), R(0), R(0)>>

Init == InitWith({1, 2, 3}, RowPool, MaxRows)

\* long files, under the variants that keep an analog list
InitLong == InitWith({2, 3}, RowPoolLong, MaxRowsLong)

\* files with cells that are not numbers
InitCells == InitWith({1, 2, 3}, RowPoolCells, MaxRowsCells)

\* files with odd streamflow cells, under the variants that keep an analog list
InitFlow == InitWith({2, 3}, RowPoolFlow, MaxRowsFlow)

\* files that list water years in increasing order, once each; their series have up to
\* three different values
InitBins ==
    /\ InitWith({1, 2, 3}, RowPoolBins, MaxRowsBins)
    /\ \A i \in 1..(Len(file) - 1) :
          RLt(ToNumber(file[i].water_year), ToNumber(file[i + 1].water_year))

inputs == <<sweApr1Pct, fallSMPct, springPrecipPct>>

outputs == <<forecastedFlowPct, forecastedFlowMM, analogYears, regressionBeta>>

(***************************************************************************)
(* The load effect                                                         *)
(***************************************************************************)
\* a catch block that sets the error and leaves loading set
FetchFailsStillLoading ==
    /\ pc = "fetching" /\ ~effectPending
    /\ pc' = "done"
    /\ error' = "load"
    /\ UNCHANGED <<variant, file, effectPending, historicalData, loading, inputs, outputs>>

\* fetch rejects or the response is not ok: the catch block
FetchFails ==
    /\ pc = "fetching" /\ ~effectPending
    /\ pc' = "done"
    /\ error' = "load"
    /\ loading' = FALSE
    /\ UNCHANGED <<variant, file, effectPending, historicalData, inputs, outputs>>

\* the baseline check without its return: the error is set and a dataset is stored too
LoadRejectedStoring ==
    /\ pc = "fetching" /\ ~effectPending
    /\ variant = 3
    /\ Len(BaselineData(ParseRows(variant, file))) = 0
    /\ pc' = "done"
    /\ error' = "baseline"
    /\ loading' = FALSE
    /\ historicalData' = [isNull |-> FALSE]
    /\ UNCHANGED <<variant, file, effectPending, inputs, outputs>>

\* variant 3, complete callback: no baseline record
LoadRejected ==
    /\ pc = "fetching" /\ ~effectPending
    /\ variant = 3
    /\ Len(BaselineData(ParseRows(variant, file))) = 0
    /\ pc' = "done"
    /\ error' = "baseline"
    /\ loading' = FALSE
    /\ UNCHANGED <<variant, file, effectPending, historicalData, inputs, outputs>>

\* a complete callback that clears loading and stores nothing
LoadCompleteStoringNothing ==
    /\ pc = "fetching" /\ ~effectPending
    /\ pc' = "done"
    /\ loading' = FALSE
    /\ UNCHANGED <<variant, file, effectPending, historicalData, error, inputs, outputs>>

\* complete callback: the dataset is stored
LoadComplete ==
    /\ pc = "fetching" /\ ~effectPending
    /\ variant = 3 => Len(BaselineData(ParseRows(variant, file))) # 0
    /\ \E data \in {ParseRows(variant, file)} :
       \E means \in {Means(variant, data)} :
       \E years \in {ProcessedData(variant, data, means)} :
           /\ historicalData' = [isNull |-> FALSE, years |-> years, means |-> means,
                                 ranges |-> Ranges(variant, years),
                                 histograms |-> Histograms(variant, years)]
           /\ forecastedFlowMM' = means.streamflow
    /\ pc' = "done"
    /\ loading' = FALSE
    /\ effectPending' = TRUE
    /\ UNCHANGED <<variant, file, error, inputs, forecastedFlowPct, analogYears, regressionBeta>>

(***************************************************************************)
(* The forecast effect                                                     *)
(***************************************************************************)
\* the effect without its guard: a forecast value is stored although no dataset is
RecomputeUnguarded ==
    /\ effectPending
    /\ historicalData.isNull
    /\ effectPending' = FALSE
    /\ forecastedFlowMM' = NaN
    /\ UNCHANGED <<variant, file, pc, historicalData, loading, error, inputs,
                   forecastedFlowPct, analogYears, regressionBeta>>

\* if (!historicalData) return
RecomputeSkipped ==
    /\ effectPending
    /\ historicalData.isNull
    /\ effectPending' = FALSE
    /\ UNCHANGED <<variant, file, pc, historicalData, loading, error, inputs, outputs>>

\* a recomputation that keeps the percent it finds stored
ForecastPctStale(range, raw) == forecastedFlowPct

\* the stored percent: clamped in every variant
ForecastPct(range, raw) == Clamp(range, raw)

\* the percent the absolute value is taken from: variant 1 uses the unclamped value
ForecastMMBase(v, range, raw) == IF v = 1 THEN raw ELSE Clamp(range, raw)

\* (forecastPct / 100) * means.streamflow
ForecastMM(pct, mean) == RMul(RDiv(pct, R(100)), mean)

\* the effect body; the singleton quantifiers name the effect's local constants
Recompute ==
    /\ effectPending
    /\ ~historicalData.isNull
    /\ effectPending' = FALSE
    /\ \E years \in {historicalData.years} :
       \E range \in {historicalData.ranges.streamflow_pct} :
       \E beta \in {Beta(years)} :
       \E raw \in {RawForecast(beta, sweApr1Pct, fallSMPct, springPrecipPct)} :
           IF variant = 3 /\ Len(years) = 0
           THEN UNCHANGED outputs
           ELSE /\ regressionBeta' = IF variant = 1 THEN regressionBeta ELSE beta
                /\ forecastedFlowPct' = ForecastPct(range, raw)
                /\ forecastedFlowMM' =
                       ForecastMM(ForecastMMBase(variant, range, raw),
                                  historicalData.means.streamflow)
                /\ IF variant = 1 THEN analogYears' = analogYears
                   ELSE analogYears' \in
                            Analogs(years, sweApr1Pct, fallSMPct, springPrecipPct)
    /\ UNCHANGED <<variant, file, pc, historicalData, loading, error, inputs>>

(***************************************************************************)
(* The presentation layer's input events.  The main view (sliders, Reset,  *)
(* quick-select) is rendered once loading is cleared and no error is set;  *)
(* the effects of a render run before the next event is handled.            *)
(***************************************************************************)
Interactive == ~loading /\ error = "null" /\ ~historicalData.isNull /\ ~effectPending

\* <input type="range" min max>: an attribute that is not a finite number falls back to
\* the element's default (0 and 100); a maximum under the minimum counts as the minimum
SliderMin(v, lo) == IF v = 1 THEN R(50) ELSE IF IsFinite(lo) THEN lo ELSE R(0)

SliderMax(v, lo, hi, hiV1) ==
    LET min == SliderMin(v, lo)
        max == IF v = 1 THEN R(hiV1) ELSE IF IsFinite(hi) THEN hi ELSE R(100)
    IN  IF RLt(max, min) THEN min ELSE max

\* step="0.5" in variants 2 and 3, the default step 1 in variant 1
SliderStep(v) == IF v = 1 THEN R(1) ELSE Half

\* the number of the slider's highest stop: the stops are min + k * step for the whole
\* numbers k from 0 up to the greatest that keeps the value at or under max
LastStop(v, lo, hi, hiV1) ==
    MathFloor(RDiv(RSub(SliderMax(v, lo, hi, hiV1), SliderMin(v, lo)), SliderStep(v)))

\* k is the number of one of the slider's stops
IsStop(v, lo, hi, hiV1, k) ==
    /\ IsFinite(k) /\ MathFloor(k) = k
    /\ RLe(R(0), k) /\ RLe(k, LastStop(v, lo, hi, hiV1))

\* Number(e.target.value) with the slider on stop k
SliderStop(v, lo, k) == RAdd(SliderMin(v, lo), RMul(k, SliderStep(v)))

\* the max attributes of variant 1's sliders
SweMaxV1 == 200

FallSMMaxV1 == 150

SpringPrecipMaxV1 == 150

\* onChange of the SWE slider, moved to stop k
SetSwe(k) ==
    /\ Interactive
    /\ IsStop(variant, historicalData.ranges.swe_pct.min,
              historicalData.ranges.swe_pct.max, SweMaxV1, k)
    /\ \E x \in {SliderStop(variant, historicalData.ranges.swe_pct.min, k)} :
          /\ sweApr1Pct' = x
          /\ effectPending' = (x # sweApr1Pct)
    /\ UNCHANGED <<variant, file, pc, historicalData, loading, error,
                   fallSMPct, springPrecipPct, outputs>>

\* onChange of the fall soil moisture slider, moved to stop k
SetFallSM(k) ==
    /\ Interactive
    /\ IsStop(variant, historicalData.ranges.fallSM_pct.min,
              historicalData.ranges.fallSM_pct.max, FallSMMaxV1, k)
    /\ \E x \in {SliderStop(variant, historicalData.ranges.fallSM_pct.min, k)} :
          /\ fallSMPct' = x
          /\ effectPending' = (x # fallSMPct)
    /\ UNCHANGED <<variant, file, pc, historicalData, loading, error,
                   sweApr1Pct, springPrecipPct, outputs>>

\* onChange of the spring precipitation slider, moved to stop k
SetSpringPrecip(k) ==
    /\ Interactive
    /\ IsStop(variant, historicalData.ranges.springPrecip_pct.min,
              historicalData.ranges.springPrecip_pct.max, SpringPrecipMaxV1, k)
    /\ \E x \in {SliderStop(variant, historicalData.ranges.springPrecip_pct.min, k)} :
          /\ springPrecipPct' = x
          /\ effectPending' = (x # springPrecipPct)
    /\ UNCHANGED <<variant, file, pc, historicalData, loading, error,
                   sweApr1Pct, fallSMPct, outputs>>

\* onClick of the Reset button (variants 2 and 3)
Reset ==
    /\ Interactive
    /\ variant # 1
    /\ sweApr1Pct' = R(100)
    /\ fallSMPct' = R(100)
    /\ springPrecipPct' = R(100)
    /\ effectPending' = (inputs # <<R(100), R(100), R(100)>>)
    /\ UNCHANGED <<variant, file, pc, historicalData, loading, error, outputs>>

\* years.find(y => y.year === parseInt(e.target.value)): the first record, in row order,
\* whose year is the number the option's text parses to; 0 when there is none
FindYear(years, target) ==
    LET hits == {j \in 1..Len(years) : years[j].year.k = "num" /\ REq(years[j].year.v, target)}
    IN  IF hits = {} THEN 0 ELSE CHOOSE j \in hits : \A h \in hits : j <= h

\* the record the handler finds when the option of record i is chosen: the option's value
\* is the text of the record's year
Selected(years, i) == FindYear(years, ParseInt(ToStr(years[i].year)))

\* the handler with record j found
SelectYear(y) ==
    /\ sweApr1Pct' = y.swe_pct
    /\ fallSMPct' = y.fallSM_pct
    /\ springPrecipPct' = y.springPrecip_pct
    /\ effectPending' = (inputs # <<y.swe_pct, y.fallSM_pct, y.springPrecip_pct>>)

\* onChange of the quick-select list (variants 2 and 3): option i is chosen
QuickSelect ==
    /\ Interactive
    /\ variant # 1
    /\ \E i \in 1..Len(historicalData.years) :
       \E j \in {Selected(historicalData.years, i)} :
          /\ j # 0
          /\ SelectYear(historicalData.years[j])
    /\ UNCHANGED <<variant, file, pc, historicalData, loading, error, outputs>>

\* the stop numbers the slider events of the specifications use, besides the number of
\* the slider's highest stop
StopPool == {0, 1}

\* the stops the slider events of the specifications move a slider to: those of the pool
\* that the slider has, and its highest
StopsTried(f, hiV1) ==
    IF ~Interactive THEN {}
    ELSE LET last == LastStop(variant, historicalData.ranges[f].min,
                              historicalData.ranges[f].max, hiV1)
         IN  {last} \cup {R(j) : j \in {i \in StopPool : RLe(R(i), last)}}

Next ==
    \/ FetchFails
    \/ LoadRejected
    \/ LoadComplete
    \/ RecomputeSkipped
    \/ Recompute
    \/ \E k \in StopsTried("swe_pct", SweMaxV1) : SetSwe(k)
    \/ \E k \in StopsTried("fallSM_pct", FallSMMaxV1) : SetFallSM(k)
    \/ \E k \in StopsTried("springPrecip_pct", SpringPrecipMaxV1) : SetSpringPrecip(k)
    \/ Reset
    \/ QuickSelect

Spec == Init /\ [][Next]_vars

SpecLong == InitLong /\ [][Next]_vars

SpecCells == InitCells /\ [][Next]_vars

SpecFlow == InitFlow /\ [][Next]_vars

SpecBins == InitBins /\ [][Next]_vars

\* the fetch resolves or rejects and its callback is run; before it, React runs the
\* effects of the first render, where the forecast effect finds no dataset and returns
SpecLive ==
    /\ InitCells /\ [][Next]_vars
    /\ WF_vars(FetchFails \/ LoadRejected \/ LoadComplete)
    /\ WF_vars(RecomputeSkipped)

(***************************************************************************)
(* Properties                                                              *)
(***************************************************************************)
Loaded == ~historicalData.isNull

\* a dataset is stored and the forecast effect has run on the current inputs
Settled == Loaded /\ ~effectPending

StreamflowRange == historicalData.ranges.streamflow_pct

AtAverage == inputs = <<R(100), R(100), R(100)>>

\* the slack for results that differ by rounding: 1e-9 of the greater of the values
\* compared (and of 1), far above the rounding error of the arithmetic and far under the
\* spacing of the data
Slack == <<1, -82, 1099, 8382, 8347, 5781>>

\* the slack for values as large as x and y
SlackFor(x, y) == RMul(Slack, MathMax(<<R(1), MathAbs(x), MathAbs(y)>>))

\* x and y are numbers within the slack of each other
Close(x, y) == RLe(MathAbs(RSub(x, y)), SlackFor(x, y))

\* C1 (as claimed): after the forecast recomputation, the stored forecast percent lies
\* within [min, max] of the historical streamflow percent series, for every loaded
\* dataset and every input triple.
C1_ForecastWithinRange ==
    Settled => /\ RLe(StreamflowRange.min, forecastedFlowPct)
               /\ RLe(forecastedFlowPct, StreamflowRange.max)

\* C2 (as claimed, for datasets whose streamflow percent range is finite): after every
\* recomputation the absolute forecast value equals the stored (clamped) forecast
\* percent / 100 * the baseline streamflow mean, in every variant.
C2_AbsoluteFromClamped ==
    (Settled /\ IsFinite(StreamflowRange.min) /\ IsFinite(StreamflowRange.max)) =>
        forecastedFlowMM =
            RMul(RDiv(forecastedFlowPct, R(100)), historicalData.means.streamflow)

\* C3 (as claimed, for the variant that guards its means with the epsilon): with all
\* three inputs at exactly 100 the recomputed forecast percent is 100 and the absolute
\* value is the baseline streamflow mean, for every loaded dataset.
C3_IdentityScenario ==
    (variant = 3 /\ Settled /\ AtAverage) =>
        /\ forecastedFlowPct = R(100)
        /\ forecastedFlowMM = historicalData.means.streamflow

\* C4 (as claimed, for the two variants that store the coefficients): the stored
\* forecast percent is the raw value 100 + sum (input_i - 100) * beta[i] when that lies
\* inside the historical streamflow range, the range maximum when the raw value is above
\* it and the range minimum when it is below it.
C4_ClampedRaw ==
    (variant # 1 /\ Settled) =>
        \A raw \in {RawForecast(regressionBeta, sweApr1Pct, fallSMPct, springPrecipPct)} :
        \A r \in {StreamflowRange} :
            /\ (RLe(r.min, raw) /\ RLe(raw, r.max)) => forecastedFlowPct = raw
            /\ RGt(raw, r.max) => forecastedFlowPct = r.max
            /\ RLt(raw, r.min) => forecastedFlowPct = r.min

\* the streamflow (mm) the analog sort compares
FlowOf(y) == ToNumber(y.streamflow_mm)

\* x is within 15 percentage points of the input, bounds included
Near(x, input) == RLe(RSub(x, input), R(15)) /\ RLe(RSub(input, x), R(15))

\* a record whose three predictor percents are all near the current inputs
IsSurvivor(y) ==
    /\ Near(y.swe_pct, sweApr1Pct)
    /\ Near(y.fallSM_pct, fallSMPct)
    /\ Near(y.springPrecip_pct, springPrecipPct)

Survivors == {j \in 1..Len(historicalData.years) : IsSurvivor(historicalData.years[j])}

Listed == {analogYears[i].idx : i \in 1..Len(analogYears)}

\* C5: the analog list never has more than 5 entries, and after a recomputation it is
\* empty only when no record of the dataset has all three predictor percents within 15
\* points of the inputs.
C5_AnalogBound ==
    /\ Len(analogYears) <= 5
    /\ (Settled /\ variant # 1 /\ analogYears = <<>>) => Survivors = {}

\* C5 witness: more than five records are within tolerance and the list holds five
C5_Witness == Settled /\ Len(analogYears) = 5 /\ Cardinality(Survivors) > 5

\* C6 (as claimed): after a recomputation every listed year is within tolerance, no
\* listed year has less streamflow than a year listed after it, and no survivor left out
\* of the list has strictly more streamflow than a listed year.
C6_AnalogOrder ==
    (Settled /\ variant # 1) =>
        /\ \A i \in 1..Len(analogYears) :
              /\ analogYears[i].idx \in Survivors
              /\ analogYears[i] = historicalData.years[analogYears[i].idx]
        /\ \A i \in 1..Len(analogYears) : \A j \in (i + 1)..Len(analogYears) :
              ~RLt(FlowOf(analogYears[i]), FlowOf(analogYears[j]))
        /\ \A j \in Survivors \ Listed : \A i \in 1..Len(analogYears) :
              ~RGt(FlowOf(historicalData.years[j]), FlowOf(analogYears[i]))

\* C7: listed years with equal streamflow are in ascending year order,
\* whatever the order of the rows.
C7_TiesByYear ==
    (Settled /\ variant # 1) =>
        \A i \in 1..(Len(analogYears) - 1) :
            REq(FlowOf(analogYears[i]), FlowOf(analogYears[i + 1]))
                => RLe(ToNumber(analogYears[i].year), ToNumber(analogYears[i + 1].year))

HistogramKeys == IF variant = 1 THEN {"swe", "fallSM", "springPrecip"}
                 ELSE {"swe", "fallSM", "springPrecip", "streamflow"}

SeriesOf(k) ==
    Series(historicalData.years,
           CASE k = "swe" -> "swe_pct"
             [] k = "fallSM" -> "fallSM_pct"
             [] k = "springPrecip" -> "springPrecip_pct"
             [] k = "streamflow" -> "streamflow_pct")

RECURSIVE SumCounts(_)
SumCounts(h) == IF h = <<>> THEN 0 ELSE Head(h).count + SumCounts(Tail(h))

Values(s) == {s[j] : j \in 1..Len(s)}

Least(s) == CHOOSE x \in Values(s) : \A y \in Values(s) : RLe(x, y)

Greatest(s) == CHOOSE x \in Values(s) : \A y \in Values(s) : RLe(y, x)

\* a series of finite numbers that are not all the same (spread of at least 1e-6)
NonDegenerate(s) ==
    /\ Len(s) > 0
    /\ \A j \in 1..Len(s) : IsFinite(s[j])
    /\ RGe(RSub(Greatest(s), Least(s)), FlatWidth)

\* C8 (as claimed): for every non-empty series of numbers the bin counts of its
\* histogram add up to the length of the series, in every variant, constant series
\* included.
C8_CountConservation ==
    Loaded =>
        \A k \in HistogramKeys : \A s \in {SeriesOf(k)} :
            (Len(s) > 0 /\ \A j \in 1..Len(s) : IsFinite(s[j])) =>
                SumCounts(historicalData.histograms[k]) = Len(s)

\* C9 (as claimed): a series whose values all equal v yields exactly one bin, with count
\* the series length, binStart v - 0.5 and binEnd v + 0.5; an empty series yields no bins.
C9_DegenerateBins ==
    Loaded =>
        \A k \in HistogramKeys :
        \A s \in {SeriesOf(k)} : \A h \in {historicalData.histograms[k]} :
            /\ Len(s) = 0 => h = <<>>
            /\ (Len(s) > 0 /\ IsFinite(s[1]) /\ \A j \in 1..Len(s) : s[j] = s[1]) =>
                  /\ Len(h) = 1
                  /\ h[1].count = Len(s)
                  /\ h[1].binStart = RSub(s[1], Half)
                  /\ h[1].binEnd = RAdd(s[1], Half)

\* the percent series of dataset hd that histogram k is built from
SeriesIn(hd, k) ==
    Series(hd.years,
           CASE k = "swe" -> "swe_pct"
             [] k = "fallSM" -> "fallSM_pct"
             [] k = "springPrecip" -> "springPrecip_pct"
             [] k = "streamflow" -> "streamflow_pct")

\* in dataset hd the histogram of every non-degenerate series has exactly 15 contiguous
\* bins of one width from the series minimum to the series maximum, and the count of each
\* bin is the number of values v with binStart <= v < binEnd, the maximum counted in the
\* last bin: every relation taken exactly
BinsPartitionExactly(hd, keys) ==
    \A k \in keys :
    \A s \in {SeriesIn(hd, k)} : \A h \in {hd.histograms[k]} :
        NonDegenerate(s) =>
            \A lo \in {Least(s)} : \A hi \in {Greatest(s)} :
                /\ Len(h) = 15
                /\ REq(h[1].binStart, lo)
                /\ REq(h[15].binEnd, hi)
                /\ \A i \in 1..14 : h[i].binEnd = h[i + 1].binStart
                /\ \A i \in 1..15 :
                      /\ RSub(h[i].binEnd, h[i].binStart) = RSub(h[1].binEnd, h[1].binStart)
                      /\ h[i].count =
                            Cardinality({j \in 1..Len(s) :
                                \/ RLe(h[i].binStart, s[j]) /\ RLt(s[j], h[i].binEnd)
                                \/ i = 15 /\ s[j] = hi})

\* C10 (as claimed): the histograms stored with a dataset partition every non-degenerate
\* series into 15 equal-width bins from the minimum to the maximum, every value counted
\* in the bin with binStart <= v < binEnd, with every relation exact.
C10_ExactBins ==
    [][(~Loaded /\ ~historicalData'.isNull) =>
           BinsPartitionExactly(historicalData', HistogramKeys)]_vars

\* 2^-50: four units in the last place of a double between 1 and 2
BinSlack == <<1, -102, 1024, 0, 0, 0>>

\* what the rounding of (max - min) / 15, of i * binWidth and of min + i * binWidth can
\* move a bin edge by: four units in the last place of the greater of |lo| and |hi|
BinSlackFor(lo, hi) == RMul(BinSlack, MathMax(<<MathAbs(lo), MathAbs(hi)>>))

\* the same with the rounding of the bin edges allowed for, and nothing else: 15 bins,
\* the first binStart the minimum exactly, the bins contiguous exactly, the last binEnd
\* within the slack of the maximum, every bin within the slack of (max - min) / 15 wide;
\* every value is counted once; a value further than the slack from both edges of a bin
\* is counted in that bin, a bin counts only values of its interval or within the slack
\* of its edges, and the maximum is counted in the last bin
BinsPartitionSeries(hd, keys) ==
    \A k \in keys :
    \A s \in {SeriesIn(hd, k)} : \A h \in {hd.histograms[k]} :
        NonDegenerate(s) =>
            \A lo \in {Least(s)} : \A hi \in {Greatest(s)} :
            \A width \in {RDiv(RSub(hi, lo), R(15))} : \A slack \in {BinSlackFor(lo, hi)} :
                /\ Len(h) = 15
                /\ REq(h[1].binStart, lo)
                /\ RLe(MathAbs(RSub(h[15].binEnd, hi)), slack)
                /\ \A i \in 1..14 : h[i].binEnd = h[i + 1].binStart
                /\ SumCounts(h) = Len(s)
                /\ h[15].count >= Cardinality({j \in 1..Len(s) : s[j] = hi})
                /\ \A i \in 1..15 :
                   \A from \in {h[i].binStart} : \A to \in {h[i].binEnd} :
                      /\ RLe(MathAbs(RSub(RSub(to, from), width)), slack)
                      /\ h[i].count >=
                            Cardinality({j \in 1..Len(s) :
                                /\ RLe(RAdd(from, slack), s[j])
                                /\ RLe(s[j], RSub(to, slack))})
                      /\ h[i].count <=
                            Cardinality({j \in 1..Len(s) :
                                /\ RLe(RSub(from, slack), s[j])
                                /\ RLe(s[j], RAdd(to, slack))})

\* C10 (amended): whenever a dataset is stored, the histograms stored with it partition
\* every non-degenerate series into 15 contiguous bins from the minimum, of width
\* (max - min) / 15 and ending at the maximum up to four units in the last place; every
\* value is counted once, in the bin with binStart <= v < binEnd unless v is within four
\* units in the last place of an edge, where it may be counted in the bin on either side
\* of that edge; the maximum is counted in the last bin.  The stored dataset never
\* changes afterwards.
C10_EqualWidthBins ==
    [][/\ (~Loaded /\ ~historicalData'.isNull) =>
              BinsPartitionSeries(historicalData', HistogramKeys)
       /\ Loaded => historicalData' = historicalData]_vars

\* the values of series s that are neither its least nor its greatest
Interior(s) == {j \in 1..Len(s) : s[j] # Least(s) /\ s[j] # Greatest(s)}

\* C10 witness: a stored dataset with a series whose only interior value is counted in a
\* bin with binEnd <= v, with a series whose only interior value is counted in a bin with
\* v < binStart, and with a series whose interior value is counted in the bin that holds
\* it, further than the slack from both edges
C10_Witness ==
    /\ Loaded
    /\ \E k \in HistogramKeys : \E s \in {SeriesOf(k)} :
       \E h \in {historicalData.histograms[k]} :
          /\ NonDegenerate(s)
          /\ Cardinality(Interior(s)) = 1
          /\ \E j \in Interior(s) : \E i \in 2..14 :
                h[i].count = 1 /\ RLe(h[i].binEnd, s[j]) /\ h[i + 1].count = 0
    /\ \E k \in HistogramKeys : \E s \in {SeriesOf(k)} :
       \E h \in {historicalData.histograms[k]} :
          /\ NonDegenerate(s)
          /\ Cardinality(Interior(s)) = 1
          /\ \E j \in Interior(s) : \E i \in 2..14 :
                h[i].count = 1 /\ RLt(s[j], h[i].binStart) /\ h[i - 1].count = 0
    /\ \E k \in HistogramKeys : \E s \in {SeriesOf(k)} :
       \E h \in {historicalData.histograms[k]} :
          /\ NonDegenerate(s)
          /\ \E j \in Interior(s) : \E i \in 2..14 :
                /\ h[i].count = 1
                /\ RLe(RAdd(h[i].binStart, BinSlackFor(Least(s), Greatest(s))), s[j])
                /\ RLe(s[j], RSub(h[i].binEnd, BinSlackFor(Least(s), Greatest(s))))

\* the stored records whose year lies in the baseline period
BaselineYears ==
    SelectSeq(historicalData.years,
              LAMBDA y : /\ RGe(ToNumber(y.year), R(1991))
                         /\ RLe(ToNumber(y.year), R(2020)))

PctFields == {"swe_pct", "fallSM_pct", "springPrecip_pct", "streamflow_pct"}

\* the arithmetic mean of a non-empty series
MeanOf(series) == RDiv(Sum(series), R(Len(series)))

\* C11: for every loaded dataset with baseline records and each of the four variables,
\* the mean of the derived percent field over the baseline records equals 100 (within
\* the slack for rounding).
C11_BaselinePctMean ==
    (Loaded /\ Len(BaselineYears) > 0) =>
        \A f \in PctFields : Close(MeanOf(Series(BaselineYears, f)), R(100))

\* the rows of the file that the parser keeps, in file order: the row a stored record
\* was made from is the one at the record's position
KeptRows ==
    SelectSeq(file, LAMBDA d : IF variant = 3
                               THEN d.water_year.k \in {"num", "text"}
                                    /\ d.water_year # Text(<<>>)
                                    /\ ToNumber(d.water_year) = NumberOr(ToNumber(d.water_year), NaN)
                                    /\ ~IsNaN(ToNumber(d.water_year))
                               ELSE Truthy(d.water_year))

\* in dataset hd every kept row has a record, and each percent field of every record is
\* (raw value / baseline mean of hd) * 100
PercentsOfMeans(hd) ==
    /\ Len(hd.years) = Len(KeptRows)
    /\ \A i \in 1..Len(hd.years) :
       \A y \in {hd.years[i]} : \A m \in {hd.means} :
          /\ y.swe_pct = RMul(RDiv(ToNumber(y.swe_mm), m.swe), R(100))
          /\ y.fallSM_pct = RMul(RDiv(ToNumber(y.fallSM_mm), m.fallSM), R(100))
          /\ y.springPrecip_pct =
                 RMul(RDiv(ToNumber(y.springPrecip_mm), m.springPrecip), R(100))
          /\ y.streamflow_pct =
                 RMul(RDiv(ToNumber(y.streamflow_mm), m.streamflow), R(100))

\* C12: whenever a dataset is stored, every kept row has a record, and in every record,
\* baseline year or not, each derived percent field equals the record's raw value / the
\* stored baseline mean of that variable * 100.  The stored records and means never
\* change afterwards.
C12_PercentOfMean ==
    [][/\ (~Loaded /\ ~historicalData'.isNull) => PercentsOfMeans(historicalData')
       /\ Loaded => /\ historicalData'.years = historicalData.years
                    /\ historicalData'.means = historicalData.means]_vars

\* C12 witness: a record of a year outside the baseline period with raw snow 11 under a
\* baseline mean of 20: its percent is the double (11 / 20) * 100, which is not 55
C12_Witness ==
    /\ Loaded
    /\ \E i \in 1..Len(historicalData.years) :
          /\ historicalData.years[i].year = Num(1990)
          /\ historicalData.means.swe = R(20)
          /\ historicalData.years[i].swe_mm = Num(11)
          /\ historicalData.years[i].swe_pct = RMul(RDiv(R(11), R(20)), R(100))
          /\ historicalData.years[i].swe_pct # R(55)

\* the rows of the file whose year is a number from 1991 to 2020
WindowRows ==
    SelectSeq(file, LAMBDA d : /\ d.water_year.k = "num"
                               /\ RLe(R(1991), d.water_year.v)
                               /\ RLe(d.water_year.v, R(2020)))

\* the column of the file each mean belongs to
MeanColumns ==
    {<<"swe", "apr1_swe_mm">>, <<"fallSM", "fall_sm_oct_nov_avg_mm">>,
     <<"springPrecip", "spring_precip_apr_jul_mm">>,
     <<"streamflow", IF variant = 2 THEN "total_streamflow_mm"
                     ELSE "key_streamflow_apr_jul_mm">>}

RawColumn(rows, col) == [i \in 1..Len(rows) |-> ToNumber(rows[i][col])]

\* every mean of dataset hd that belongs to a column whose cells in the rows of 1991 to
\* 2020 are numbers is the mean of that column over exactly those rows (a zero mean
\* stored as the epsilon under variant 3)
MeansFromWindow(hd) ==
    \A mc \in MeanColumns :
    \A ref \in {MeanOf(RawColumn(WindowRows, mc[2]))} :
        (\A i \in 1..Len(WindowRows) : WindowRows[i][mc[2]].k = "num") =>
            \/ hd.means[mc[1]] = ref
            \/ variant = 3 /\ IsZero(ref) /\ hd.means[mc[1]] = Eps

\* C13: when a file with rows of the years 1991 to 2020 is loaded, every stored baseline
\* mean of a column whose cells in those rows are numbers is the mean of that column
\* over exactly those rows, whatever rows of other years the file holds, and no later
\* step changes a stored mean.
C13_MeansFromWindow ==
    [][/\ (~Loaded /\ ~historicalData'.isNull /\ Len(WindowRows) > 0) =>
              MeansFromWindow(historicalData')
       /\ Loaded => historicalData'.means = historicalData.means]_vars

\* C13 witness: a file with a row of 1990 (snow 11) and a row of 2020 (snow 20) is loaded
\* and the snow mean is that of the row of 2020 alone
C13_Witness ==
    /\ Loaded
    /\ \A y \in {1990, 2020} : \E i \in 1..Len(file) : file[i].water_year = Num(y)
    /\ historicalData.means.swe = R(20)

\* the cells of one column in the rows of the baseline period
WindowCells(col) == [i \in 1..Len(WindowRows) |-> WindowRows[i][col]]

\* the numbers among a sequence of cells
NumbersIn(cells) ==
    LET nums == SelectSeq(cells, LAMBDA c : c.k = "num")
    IN  [i \in 1..Len(nums) |-> nums[i].v]

\* C14: for a column whose baseline cells are numbers or non-numeric strings, at least
\* one of them a number, the stored mean is not NaN and is the mean of the numbers alone:
\* a string adds nothing to the sum and nothing to the count.
C14_MeanIgnoresNonNumeric ==
    Loaded =>
        \A mc \in MeanColumns :
        \A cells \in {WindowCells(mc[2])} : \A nums \in {NumbersIn(cells)} :
            (/\ \A i \in 1..Len(cells) : cells[i].k \in {"num", "text"}
             /\ Len(nums) > 0 /\ ~IsZero(Sum(nums))) =>
                /\ ~IsNaN(historicalData.means[mc[1]])
                /\ historicalData.means[mc[1]] = MeanOf(nums)

MeanNames == {"swe", "fallSM", "springPrecip", "streamflow"}

\* C15: after the load of a file with baseline rows every stored mean is strictly
\* positive, and no percent field is the quotient of a division by zero (NaN or an
\* infinity), in every variant.
C15_PositiveMeans ==
    (Loaded /\ Len(WindowRows) > 0) =>
        /\ \A m \in MeanNames : RGt(historicalData.means[m], R(0))
        /\ \A i \in 1..Len(historicalData.years) : \A f \in PctFields :
              IsFinite(historicalData.years[i][f])

\* C16: every record of the stored dataset has a number as its year: no row whose
\* water_year cell is blank, missing or a non-numeric string is kept, in every variant.
C16_YearIsNumber ==
    Loaded => \A i \in 1..Len(historicalData.years) : historicalData.years[i].year.k = "num"

\* the field of a stored record that holds the raw value of a column of the file
RawField(col) ==
    CASE col = "apr1_swe_mm" -> "swe_mm"
      [] col = "fall_sm_oct_nov_avg_mm" -> "fallSM_mm"
      [] col = "spring_precip_apr_jul_mm" -> "springPrecip_mm"
      [] OTHER -> "streamflow_mm"

\* the percent field that belongs to a mean
PctField(m) ==
    CASE m = "swe" -> "swe_pct"
      [] m = "fallSM" -> "fallSM_pct"
      [] m = "springPrecip" -> "springPrecip_pct"
      [] OTHER -> "streamflow_pct"

\* a cell read as the claim reads it: a number is itself, a blank or missing cell is 0
ZeroIfAbsent(c) == IF c.k = "num" THEN c.v ELSE R(0)

\* C17: a blank or missing measurement cell of a kept row is treated as 0: the record's
\* raw value is 0; in a column whose baseline cells are numbers, blank or missing the
\* stored mean counts the cell as 0 (a zero mean stored as the epsilon under variant 3);
\* and where that mean is not zero the record's percent is 0.
C17_AbsentCellIsZero ==
    Loaded =>
        \A mc \in MeanColumns :
        \A cells \in {WindowCells(mc[2])} :
        \A ref \in {IF Len(cells) = 0 THEN R(0)
                    ELSE MeanOf([i \in 1..Len(cells) |-> ZeroIfAbsent(cells[i])])} :
            /\ (/\ Len(cells) > 0
                /\ \A i \in 1..Len(cells) : cells[i].k \in {"num", "blank", "missing"}
                /\ \E i \in 1..Len(cells) : cells[i].k \in {"blank", "missing"}) =>
                   \/ historicalData.means[mc[1]] = ref
                   \/ variant = 3 /\ IsZero(ref) /\ historicalData.means[mc[1]] = Eps
            /\ \A i \in 1..Len(KeptRows) :
                  KeptRows[i][mc[2]].k \in {"blank", "missing"} =>
                      /\ IsZero(ToNumber(historicalData.years[i][RawField(mc[2])]))
                      /\ (IsFinite(ref) /\ ~IsZero(ref)) =>
                             IsZero(historicalData.years[i][PctField(mc[1])])

\* the load has ended in the error state: error set, loading cleared, nothing stored
ErrorState == error # "null" /\ ~loading /\ historicalData.isNull

\* C18: when the file has no row of the years 1991 to 2020, the load ends in the error
\* state, in every variant.
C18_NoBaselineIsError ==
    (pc = "done" /\ Len(WindowRows) = 0) => ErrorState

\* C19: when the fetch has failed or the payload is empty (no rows), the load ends in
\* the error state (variants 2 and 3).
C19_FetchFailureIsError ==
    (variant # 1 /\ pc = "done" /\ (error = "load" \/ file = <<>>)) => ErrorState

\* C20: an error and a dataset are never present together.
C20_ErrorExcludesData ==
    error # "null" => historicalData.isNull

\* C20 witness: the loader has rejected a file that has rows, none of them of a baseline
\* year: the error is set and no dataset is stored
C20_Witness ==
    /\ pc = "done" /\ ~loading /\ historicalData.isNull
    /\ error = "baseline"
    /\ file # <<>>

\* the outputs as the component is constructed with them
InitialOutputs == <<R(100), R(0), <<>>, <<R(0), R(0), R(0)>>>>

\* C21: while no dataset is stored the forecast percent, the absolute value, the
\* coefficients and the analog list are the initial ones, and a state with the error
\* set is followed only by states with the same error and no dataset.
C21_NoForecastWithoutData ==
    /\ [](historicalData.isNull => outputs = InitialOutputs)
    /\ [][error # "null" => (error' = error /\ historicalData'.isNull)]_vars

\* C21 witness: the forecast effect has run without a dataset and stored nothing, and the
\* load has then ended in the error state
C21_Witness ==
    /\ error # "null" /\ ~loading /\ ~effectPending
    /\ historicalData.isNull
    /\ outputs = InitialOutputs

\* the deviation of a percent field from 100, and sums of products of deviations over
\* all records of the stored dataset
Dev(i, f) == RSub(historicalData.years[i][f], R(100))

SumProd(f, g) ==
    Sum([i \in 1..Len(historicalData.years) |-> RMul(Dev(i, f), Dev(i, g))])

Predictors == <<"swe_pct", "fallSM_pct", "springPrecip_pct">>

\* every percent of the stored dataset is a finite number
FinitePercents ==
    \A i \in 1..Len(historicalData.years) : \A f \in PctFields :
        IsFinite(historicalData.years[i][f])

\* C22: the stored coefficients satisfy the normal equations of the regression of the
\* streamflow deviation on the three predictor deviations together: for each predictor
\* i, sum over k of (sum x_i x_k) * beta[k] equals sum x_i y (within the slack for
\* rounding).
C22_NormalEquations ==
    (Settled /\ variant # 1 /\ FinitePercents /\ Len(historicalData.years) > 0) =>
        \A i \in 1..3 :
            Close(RAdd(RAdd(RMul(SumProd(Predictors[i], Predictors[1]), regressionBeta[1]),
                            RMul(SumProd(Predictors[i], Predictors[2]), regressionBeta[2])),
                       RMul(SumProd(Predictors[i], Predictors[3]), regressionBeta[3])),
                  SumProd(Predictors[i], "streamflow_pct"))

\* sum(x_i * y) / sum(x_i^2), 0 when sum(x_i^2) is zero
QuotientOrZero(sumXY, sumX2) == IF IsZero(sumX2) THEN R(0) ELSE RDiv(sumXY, sumX2)

\* sum(x_i^2) is zero or a positive number (it is NaN when a percent is NaN)
SquaresSumDefined(sumX2) == IsZero(sumX2) \/ RGt(sumX2, R(0))

\* the sums of squares of the three predictors and their sums of products with the
\* streamflow deviation, over all records of the stored dataset
SquaresSums ==
    <<SumProd("swe_pct", "swe_pct"), SumProd("fallSM_pct", "fallSM_pct"),
      SumProd("springPrecip_pct", "springPrecip_pct")>>

ProductSums ==
    <<SumProd("swe_pct", "streamflow_pct"), SumProd("fallSM_pct", "streamflow_pct"),
      SumProd("springPrecip_pct", "streamflow_pct")>>

\* 100 plus the three contributions (input_i - 100) * q[i], added from left to right
Estimate(q) ==
    RAdd(RAdd(RAdd(R(100), RMul(RSub(sweApr1Pct, R(100)), q[1])),
              RMul(RSub(fallSMPct, R(100)), q[2])),
         RMul(RSub(springPrecipPct, R(100)), q[3]))

\* C23: after a recomputation each fitted coefficient whose sum of squares is zero or
\* positive equals sum(x_i y) / sum(x_i^2) over all records of the dataset, and 0 when
\* the sum of squares is zero.  Variants 2 and 3 store the coefficients; variant 1 only
\* uses them, in the absolute forecast value.
C23_IndependentSlopes ==
    (Settled /\ Len(historicalData.years) > 0) =>
        \A sumX2 \in {SquaresSums} : \A sumXY \in {ProductSums} :
            /\ variant # 1 =>
                  \A i \in 1..3 : SquaresSumDefined(sumX2[i]) =>
                      regressionBeta[i] = QuotientOrZero(sumXY[i], sumX2[i])
            /\ (variant = 1 /\ \A i \in 1..3 : SquaresSumDefined(sumX2[i])) =>
                  forecastedFlowMM =
                      RMul(RDiv(Estimate(<<QuotientOrZero(sumXY[1], sumX2[1]),
                                           QuotientOrZero(sumXY[2], sumX2[2]),
                                           QuotientOrZero(sumXY[3], sumX2[3])>>),
                                R(100)),
                           historicalData.means.streamflow)

\* C23 witness: a dataset with a record of 1990 whose fall soil moisture is constant (sum
\* of squares zero, coefficient 0) and whose snow coefficient is not zero
C23_Witness ==
    /\ Settled /\ variant # 1
    /\ \E i \in 1..Len(historicalData.years) : historicalData.years[i].year = Num(1990)
    /\ IsZero(SumProd("fallSM_pct", "fallSM_pct")) /\ IsZero(regressionBeta[2])
    /\ RGt(SumProd("swe_pct", "swe_pct"), R(0)) /\ ~IsZero(regressionBeta[1])

\* C24: the fit is part of no recomputation that a user input triggers: a step that
\* changes an input percentage does not schedule the effect that holds the fit.
C24_FitOnlyOnLoad ==
    [][inputs' # inputs => ~effectPending']_vars

\* the coefficient the fit gives for the stored dataset: the quotient when the sum of
\* squares is positive, otherwise 0
FitOf(f) ==
    CHOOSE q \in {IF RGt(sumX2, R(0)) THEN RDiv(SumProd(f, "streamflow_pct"), sumX2)
                  ELSE R(0) : sumX2 \in {SumProd(f, f)}} : TRUE

\* C25: after the first recomputation and after every later one, whatever input events
\* came before, the stored coefficient triple is the fit of the stored dataset, which
\* does not depend on the inputs; an input event leaves the stored triple unchanged.
C25_FitFromDatasetAlone ==
    /\ []((Settled /\ variant # 1 /\ Len(historicalData.years) > 0) =>
              regressionBeta = <<FitOf("swe_pct"), FitOf("fallSM_pct"),
                                 FitOf("springPrecip_pct")>>)
    /\ [][Settled => regressionBeta' = regressionBeta]_vars

\* C25 witness: the inputs have been moved away from 100 and the effect has run again; a
\* coefficient is not zero
C25_Witness ==
    /\ Settled /\ variant # 1
    /\ sweApr1Pct # R(100)
    /\ ~IsZero(regressionBeta[1])

\* the raw estimate for the current input triple and the stored dataset
CurrentRaw == Estimate(<<FitOf("swe_pct"), FitOf("fallSM_pct"), FitOf("springPrecip_pct")>>)

\* the raw estimate held between the bounds of the historical streamflow percent
Bounded(raw) == MathMax2(StreamflowRange.min, MathMin2(StreamflowRange.max, raw))

\* the records within tolerance of the current inputs, ordered and cut: the lists the
\* sort can give
CurrentAnalogs ==
    {Slice(o, MaxAnalogs) : o \in SortOutcomes(SelectSeq(historicalData.years, IsSurvivor))}

\* C26: once the recomputation triggered by the last input event has run, the stored
\* forecast percent, absolute value and analog list equal those computed from the current
\* input triple and the stored dataset, whatever events came before.
C26_OutputsFromCurrentInputs ==
    Settled =>
        \A raw \in {CurrentRaw} :
            /\ forecastedFlowPct = Bounded(raw)
            /\ forecastedFlowMM =
                   RMul(RDiv(IF variant = 1 THEN raw ELSE Bounded(raw), R(100)),
                        historicalData.means.streamflow)
            /\ variant # 1 => analogYears \in CurrentAnalogs

\* C26 witness: two inputs have been moved away from 100, which takes more than one
\* slider event or a quick-select, the effect has run, and the forecast is not 100
C26_Witness ==
    /\ Settled
    /\ sweApr1Pct # R(100) /\ springPrecipPct # R(100)
    /\ IsFinite(forecastedFlowPct) /\ forecastedFlowPct # R(100)
    /\ variant # 1 => analogYears # <<>>

\* x lies within [range.min, range.max]
InRange(x, range) == RLe(range.min, x) /\ RLe(x, range.max)

HistoricalRanges ==
    <<historicalData.ranges.swe_pct, historicalData.ranges.fallSM_pct,
      historicalData.ranges.springPrecip_pct>>

\* the dataset has records, every percent is a finite number and the value 100 of the
\* initial state and of Reset lies within each predictor's range
OrdinaryDataset ==
    /\ Len(historicalData.years) > 0
    /\ \A i \in 1..Len(historicalData.years) :
          \A f \in PctFields : IsFinite(historicalData.years[i][f])
    /\ \A i \in 1..3 : InRange(R(100), HistoricalRanges[i])

\* C27 (as claimed, for datasets where it holds initially): in every state with a loaded
\* dataset each of the three input percentages lies within its variable's historical
\* [min, max] percent range, in every variant.
C27_InputsWithinHistoricalRange ==
    (Loaded /\ OrdinaryDataset) => \A i \in 1..3 : InRange(inputs[i], HistoricalRanges[i])

\* C28: whenever loading is cleared and no error is set, a dataset is stored.
C28_MainViewHasDataset ==
    (~loading /\ error = "null") => Loaded

\* C28 witness: the load has completed: loading cleared, no error, the dataset with its
\* records stored
C28_Witness ==
    /\ ~loading /\ error = "null" /\ pc = "done"
    /\ Loaded /\ Len(historicalData.years) > 0

\* C29: the load terminates: loading becomes false in the end and stays false, with
\* exactly one of dataset stored and error set; a stored dataset is never changed.
C29_LoadTerminates ==
    /\ <>[](~loading)
    /\ [][~loading => ~loading']_vars
    /\ [](~loading => (Loaded # (error # "null")))
    /\ [][Loaded => historicalData' = historicalData]_vars

\* C29 witness: the load has ended with a dataset and an input event has been handled
\* since
C29_Witness ==
    /\ ~loading /\ pc = "done" /\ Loaded /\ error = "null"
    /\ inputs # <<R(100), R(100), R(100)>>

\* record j is the first record in row order that has its year
FirstOfItsYear(j) ==
    \A h \in 1..(j - 1) : historicalData.years[h].year # historicalData.years[j].year

PercentsOf(j) ==
    <<historicalData.years[j].swe_pct, historicalData.years[j].fallSM_pct,
      historicalData.years[j].springPrecip_pct>>

\* C30 (as claimed): a quick-select sets the three inputs to the percents of the first
\* record in row order that has the selected year, and once the recomputation has run on
\* such inputs the analog list is not empty.
C30_QuickSelectHasAnalogs ==
    /\ [][QuickSelect => \E j \in 1..Len(historicalData.years) :
                             FirstOfItsYear(j) /\ inputs' = PercentsOf(j)]_vars
    /\ []((Settled /\ variant # 1
              /\ \E j \in 1..Len(historicalData.years) :
                     FirstOfItsYear(j) /\ inputs = PercentsOf(j))
            => analogYears # <<>>)

====
